---- MODULE Spec2Model ----
(***************************************************************************)
(* A model of the UI discovery scripts of the repository:                  *)
(*   - UIElementDiscovery (deep-inspect.js): selector synthesis, one       *)
(*     discovery pass over the current screen, the shallow click           *)
(*     exploration;                                                        *)
(*   - ElementFinder (enhanced element finder): descriptor extraction,     *)
(*     selector synthesis, the duplicate filter and the find* passes;      *)
(*   - the session life cycle of runDeepInspection, runElementFinder and   *)
(*     discoverElements.                                                   *)
(* A JavaScript string is a sequence of one-character strings, so that     *)
(* trim() is computed and not assumed; a locator string is the sequence of *)
(* the template's fixed pieces around the characters of the value.         *)
(***************************************************************************)
EXTENDS Integers, Sequences, FiniteSets, TLC

VARIABLES
    \* ---- selector synthesis (pure functions applied to drawn inputs)
    selIn,              \* the arguments: [resourceId, text, contentDesc]
    selDeep,            \* result of UIElementDiscovery.generateSelector, or NotYet
    selFinder,          \* result of ElementFinder.generateSelectors, or NotYet
    \* ---- UIElementDiscovery.exploreClickableElements
    mainNodes,          \* the device: the clickable nodes of the starting screen
    device,             \* the device: the screen shown (0 = starting screen,
                        \*   j = the screen the j-th clickable descriptor leads to)
    pc,                 \* where exploreClickableElements is suspended
    mainScreen,         \* the local mainScreen: the starting snapshot, or Null
    i,                  \* the loop index (1-based)
    selPos,             \* position in xpathSelectors
    targetElement,      \* the element re-located, or Null
    discoveredScreens,  \* this.discoveredScreens
    outcome,            \* the promise: "pending", "resolved" or "rejected"
    attempted,          \* history: loop indexes whose descriptor was attempted
    clicked,            \* history: loop indexes on which click() was issued
    captured,           \* history: loop indexes whose click returned and whose
                        \*   post-click snapshot was captured
    backs,              \* history: loop indexes after which back() was issued
    tracing,            \* whether the remote calls are being written to trail
    trail,              \* history: the remote calls made for the descriptor
                        \*   attempted last
    \* ---- ElementFinder
    finderScreen,       \* the device: the nodes of the screen shown to the finder
    foundElements,      \* this.foundElements
    changes,            \* history: how often the screen changed
    \* ---- runDeepInspection, runElementFinder, discoverElements
    prog,               \* which of the three functions runs
    sesPc,              \* where it is suspended
    driver,             \* the local `driver`: Null, or the session remote() returned
    step,               \* the next step of the try block's body
    thrown,             \* the step whose throw left the try block, or "none"
    settled,            \* the function's promise: "pending", "resolved", "rejected"
    sessionsCreated,    \* the server: sessions handed out by remote()
    deleteCalls,        \* the server: deleteSession() calls received
    \* ---- descriptor extraction (functions applied to a drawn node)
    infoNode,           \* the node: what each of its attribute reads answers
    infoOut,            \* result of ElementFinder.getElementInfo, or Unset
    itemOut,            \* the descriptor of UIElementDiscovery's clickable loop, or Unset
    \* ---- one discovery pass, remote call by remote call
    passOf,             \* "discoverElementsOnCurrentScreen" or "findAllElementTypes"
    passScreen,         \* the device: the screen the pass runs against
    passFailAt,         \* the device: the structural query that throws (0: none)
    passPc,             \* where the pass is suspended
    qPos,               \* the structural query at hand (position in the plan)
    nodePos,            \* the node at hand (position in the query's result)
    found,              \* the result of the query at hand
    passLists,          \* the lists being filled: `elements`, this.foundElements
    passLog,            \* history: the remote calls issued and the pushes made
    passResult,         \* what the pass returned, Unset before
    \* ---- ProductionDataPage.clickSection
    sectionName,        \* the argument
    pagePc,             \* where clickSection is suspended
    section,            \* the local `section`
    pageCalls,          \* history: the remote calls issued
    pageOutcome,        \* "pending", "resolved", or the error thrown
    \* ---- runTest of the two single-test runners
    runner,             \* "run-single-test" or "html-report"
    runPc,              \* where runTest is suspended
    runStep,            \* the test step at hand
    runOp,              \* the operation at hand within the step
    runLog,             \* history: the test steps completed, in order
    runFaults,          \* history: remote calls that failed
    testResults,        \* testResults.tests, as <<name, status>> entries
    summary,            \* testResults.summary: total, passed, failed
    \* ---- DiscoveryWorkflow.runCompleteWorkflow
    wfPc,               \* where runCompleteWorkflow is suspended
    wfResults,          \* this.results: elementDiscovery and deepInspection
    wfReport,           \* what the workflow reported: "none", "success", "failed"
    \* ---- ProductionTestRunner
    prodPc,             \* where runAllTests is suspended
    suiteAt,            \* the suite of the loop of runAllTests
    emitted,            \* the child processes: the events each has emitted
    suiteStatus,        \* suiteResult.status of each suite's one result object
    suiteResults,       \* this.results.testSuites: the suites whose result was pushed
    suiteSummary,       \* this.results.summary: totalSuites, passedSuites, failedSuites
    \* ---- runTests of the simple runner, SimpleTestRunner, FixedTestRunner
    trProg,             \* which of the runners runs
    trPc,               \* where runTests / runAllTests is suspended
    trAt,               \* the test at hand
    trDriver,           \* whether remote() has returned a session
    trTests,            \* testResults.tests, as <<test, status>> entries
    trCounts,           \* testResults.summary: total, passed, failed
    trRuns,             \* history: how each promise of runTest settled
    trOut,              \* the promise of runTests / runAllTests
    trExit              \* the exit code passed to process.exit, -1 before

selVars == <<selIn, selDeep, selFinder>>

expVars == <<mainNodes, device, pc, mainScreen, i, selPos, targetElement, discoveredScreens, outcome,
             attempted, clicked, captured, backs, tracing, trail>>

finVars == <<finderScreen, foundElements, changes>>

sesVars == <<prog, sesPc, driver, step, thrown, settled, sessionsCreated, deleteCalls>>

infoVars == <<infoNode, infoOut, itemOut>>

passVars == <<passOf, passScreen, passFailAt, passPc, qPos, nodePos, found, passLists,
              passLog, passResult>>

pageVars == <<sectionName, pagePc, section, pageCalls, pageOutcome>>

runVars == <<runner, runPc, runStep, runOp, runLog, runFaults, testResults, summary>>

wfVars == <<wfPc, wfResults, wfReport>>

\* the parts added last
prodVars == <<prodPc, suiteAt, emitted, suiteStatus, suiteResults, suiteSummary>>

trVars == <<trProg, trPc, trAt, trDriver, trTests, trCounts, trRuns, trOut, trExit>>

tailVars == <<wfVars, prodVars, trVars>>

\* the parts added to the first four
restVars == <<infoVars, passVars, pageVars, runVars, tailVars>>

\* the first four parts
coreVars == <<selVars, expVars, finVars, sesVars>>

vars == <<selVars, expVars, finVars, sesVars, restVars>>

\* what the exploration leaves alone
otherVars == <<selVars, finVars, sesVars, restVars>>

\* ------------------------------------------------------------------ bounds

\* longest attribute value drawn for the selector functions
MaxLen == 2

\* ------------------------------------------------------------------ strings

\* the characters attribute values are made of: a blank and a letter
Chars == {" ", "a"}

\* JavaScript null (getAttribute of a missing attribute), told apart from ''
NULL == <<"null">>

\* a value not computed yet
NotYet == <<"not yet">>

StrsOfLen(n) == [1..n -> Chars]

Strs(n) == UNION {StrsOfLen(k) : k \in 0..n}

IsBlank(c) == c = " "

RECURSIVE TrimStart(_)
TrimStart(s) ==
    IF s = <<>> THEN <<>>
    ELSE IF IsBlank(Head(s)) THEN TrimStart(Tail(s)) ELSE s

RECURSIVE TrimEnd(_)
TrimEnd(s) ==
    IF s = <<>> THEN <<>>
    ELSE IF IsBlank(s[Len(s)]) THEN TrimEnd(SubSeq(s, 1, Len(s) - 1)) ELSE s

\* String.prototype.trim
Trim(s) == TrimEnd(TrimStart(s))

\* JavaScript truthiness of a string-or-null value
Truthy(s) == s # NULL /\ s # <<>>

\* `x && x.trim()` as a condition
TruthyTrimmed(s) == Truthy(s) /\ Trim(s) # <<>>

\* ------------------------------------------------------------------ locators

Quote == "\""

\* `//*[@attr="value"]`
XPathLocator(attr, value) ==
    <<"//", "*[@", attr, "=", Quote>> \o value \o <<Quote, "]">>

\* `android=new UiSelector().method("value")`
UiLocator(method, value) ==
    <<"android=new UiSelector().", method, "(", Quote>> \o value \o <<Quote, ")">>

\* s.startsWith('//')
StartsWithSlashes(s) == Len(s) >= 1 /\ s[1] = "//"

\* UIElementDiscovery.generateSelector, text tier emitted before the identifier tier
generateSelector_textFirst(tagName, text, contentDesc, resourceId) ==
    (IF TruthyTrimmed(text)
        THEN <<UiLocator("text", Trim(text)), XPathLocator("text", Trim(text))>>
        ELSE <<>>)
    \o
    (IF Truthy(resourceId)
        THEN <<UiLocator("resourceId", resourceId), XPathLocator("resource-id", resourceId)>>
        ELSE <<>>)
    \o
    (IF TruthyTrimmed(contentDesc)
        THEN <<UiLocator("description", Trim(contentDesc)),
               XPathLocator("content-desc", Trim(contentDesc))>>
        ELSE <<>>)

\* UIElementDiscovery.generateSelector(tagName, text, contentDesc, resourceId)
generateSelector(tagName, text, contentDesc, resourceId) ==
    (IF Truthy(resourceId)
        THEN <<UiLocator("resourceId", resourceId), XPathLocator("resource-id", resourceId)>>
        ELSE <<>>)
    \o
    (IF TruthyTrimmed(text)
        THEN <<UiLocator("text", Trim(text)), XPathLocator("text", Trim(text))>>
        ELSE <<>>)
    \o
    (IF TruthyTrimmed(contentDesc)
        THEN <<UiLocator("description", Trim(contentDesc)),
               XPathLocator("content-desc", Trim(contentDesc))>>
        ELSE <<>>)

\* ElementFinder.generateSelectors, the text and label tiers tested without trim()
generateSelectors_noTrimTest(text, className, resourceId, contentDesc) ==
    (IF Truthy(resourceId)
        THEN <<XPathLocator("resource-id", resourceId), UiLocator("resourceId", resourceId)>>
        ELSE <<>>)
    \o
    (IF Truthy(text)
        THEN <<XPathLocator("text", Trim(text)), UiLocator("text", Trim(text))>>
        ELSE <<>>)
    \o
    (IF Truthy(contentDesc)
        THEN <<XPathLocator("content-desc", Trim(contentDesc)),
               UiLocator("description", Trim(contentDesc))>>
        ELSE <<>>)

\* ElementFinder.generateSelectors(text, className, resourceId, contentDesc)
generateSelectors(text, className, resourceId, contentDesc) ==
    (IF Truthy(resourceId)
        THEN <<XPathLocator("resource-id", resourceId), UiLocator("resourceId", resourceId)>>
        ELSE <<>>)
    \o
    (IF TruthyTrimmed(text)
        THEN <<XPathLocator("text", Trim(text)), UiLocator("text", Trim(text))>>
        ELSE <<>>)
    \o
    (IF TruthyTrimmed(contentDesc)
        THEN <<XPathLocator("content-desc", Trim(contentDesc)),
               UiLocator("description", Trim(contentDesc))>>
        ELSE <<>>)

\* ------------------------------------------------- the device's nodes

\* an attribute read that rejects
THROWS == <<"throws">>

\* JavaScript null or undefined where an object is expected
Null == [null |-> TRUE]

\* a result not there yet (the call has not returned)
Unset == [unset |-> TRUE]

\* `await read().catch(() => fallback)`
ReadOr(value, fallback) == IF value = THROWS THEN fallback ELSE value

\* getRect() of every node of the model; `{}` is NoRect
Rect == <<0, 0, 10, 10>>

NoRect == <<>>

Node(text, contentDesc, resourceId, shown) ==
    [text |-> text, contentDesc |-> contentDesc, resourceId |-> resourceId,
     tagName |-> <<"a">>, hint |-> NULL, bounds |-> Rect, shown |-> shown]

\* identifier, text (with a trailing blank) and label
NodeFull == Node(<<"a", " ">>, <<"a">>, <<"a">>, "yes")

\* text only
NodeText == Node(<<"a">>, NULL, NULL, "yes")

\* identifier only: neither text nor label
NodeBare == Node(<<>>, NULL, <<"a">>, "yes")

\* a label of one blank and nothing else
NodeBlankLabel == Node(<<>>, <<" ">>, NULL, "yes")

\* in the UI tree but not on screen
NodeHidden == Node(<<"a">>, NULL, NULL, "no")

\* the loaded screen: what each structural query of one pass answers
Screen(activity, clickable, inputs, texts, scrollable) ==
    [activity |-> activity, clickable |-> clickable, inputs |-> inputs,
     texts |-> texts, scrollable |-> scrollable]

\* ------------------------------------------------- one discovery pass

\* UIElementDiscovery.generateInputSelector(hint, resourceId, index)
generateInputSelector(hint, resourceId, index) ==
    (IF Truthy(resourceId)
        THEN <<UiLocator("resourceId", resourceId), XPathLocator("resource-id", resourceId)>>
        ELSE <<>>)
    \o
    (IF TruthyTrimmed(hint)
        THEN <<UiLocator("textContains", Trim(hint)),
               <<"//", "android.widget.EditText[@", "hint", "=", Quote>>
                   \o Trim(hint) \o <<Quote, "]">> >>
        ELSE <<>>)
    \o
    << <<"(//android.widget.EditText)[", index + 1, "]">> >>

\* the descriptor pushed to elements.clickable for the node at `index` (0-based)
ClickableItem(node, index) ==
    LET text == ReadOr(node.text, <<>>)
        tagName == ReadOr(node.tagName, <<>>)
        bounds == ReadOr(node.bounds, NoRect)
        contentDesc == ReadOr(node.contentDesc, <<>>)
        resourceId == ReadOr(node.resourceId, <<>>)
    IN  [index |-> index, text |-> Trim(text), tagName |-> tagName,
         contentDesc |-> contentDesc, resourceId |-> resourceId, bounds |-> bounds,
         selectors |-> generateSelector(tagName, text, contentDesc, resourceId)]

\* the descriptor pushed to elements.inputs
InputItem(node, index) ==
    LET text == ReadOr(node.text, <<>>)
        hint == ReadOr(node.hint, <<>>)
        resourceId == ReadOr(node.resourceId, <<>>)
        bounds == ReadOr(node.bounds, NoRect)
    IN  [index |-> index, text |-> Trim(text), hint |-> hint, resourceId |-> resourceId,
         bounds |-> bounds, selectors |-> generateInputSelector(hint, resourceId, index)]

\* the descriptor pushed to elements.texts
TextItem(node, index) ==
    LET text == ReadOr(node.text, <<>>)
        resourceId == ReadOr(node.resourceId, <<>>)
        bounds == ReadOr(node.bounds, NoRect)
    IN  [index |-> index, text |-> Trim(text), resourceId |-> resourceId, bounds |-> bounds]

\* the descriptor pushed to elements.scrollable
ScrollableItem(node, index) ==
    LET tagName == ReadOr(node.tagName, <<>>)
        resourceId == ReadOr(node.resourceId, <<>>)
        bounds == ReadOr(node.bounds, NoRect)
    IN  [index |-> index, tagName |-> tagName, resourceId |-> resourceId, bounds |-> bounds]

\* the text pass keeps a node only with a text that is not blank
TextKept(node) == TruthyTrimmed(ReadOr(node.text, <<>>))

\* the text pass looks at the first 20 nodes only
TextCap == 20

Min(a, b) == IF a < b THEN a ELSE b

\* the loops over a query's nodes: isDisplayed() true, else the node is skipped
RECURSIVE CollectClickable(_, _)
CollectClickable(nodes, n) ==
    IF n > Len(nodes) THEN <<>>
    ELSE (IF nodes[n].shown = "yes" THEN <<ClickableItem(nodes[n], n - 1)>> ELSE <<>>)
         \o CollectClickable(nodes, n + 1)

RECURSIVE CollectInputs(_, _)
CollectInputs(nodes, n) ==
    IF n > Len(nodes) THEN <<>>
    ELSE (IF nodes[n].shown = "yes" THEN <<InputItem(nodes[n], n - 1)>> ELSE <<>>)
         \o CollectInputs(nodes, n + 1)

RECURSIVE CollectTexts(_, _)
CollectTexts(nodes, n) ==
    IF n > Min(Len(nodes), TextCap) THEN <<>>
    ELSE (IF nodes[n].shown = "yes" /\ TextKept(nodes[n])
             THEN <<TextItem(nodes[n], n - 1)>> ELSE <<>>)
         \o CollectTexts(nodes, n + 1)

RECURSIVE CollectScrollable(_, _)
CollectScrollable(nodes, n) ==
    IF n > Len(nodes) THEN <<>>
    ELSE (IF nodes[n].shown = "yes" THEN <<ScrollableItem(nodes[n], n - 1)>> ELSE <<>>)
         \o CollectScrollable(nodes, n + 1)

\* activity.split('.').pop(): an activity is the sequence of its dotted parts
LastPart(activity) == activity[Len(activity)]

\* takeScreenshot without its try block: the throw of saveScreenshot leaves it
takeScreenshot_uncaught(name, shotFails) ==
    IF shotFails THEN THROWS ELSE <<name, ".png">>

\* takeScreenshot(name): the file name, or null when saveScreenshot rejects
takeScreenshot(name, shotFails) ==
    IF shotFails THEN NULL ELSE <<name, ".png">>

\* discoverElementsOnCurrentScreen() on `screen`. infoFails: one of the four
\* calls of getCurrentScreenInfo rejects; queryFailsAt: the structural query
\* that rejects (1 clickable, 2 inputs, 3 texts, 4 scrollable; 0 none), which
\* leaves the one try block; shotFails: saveScreenshot rejects.
discoverElementsOnCurrentScreen(screen, infoFails, queryFailsAt, shotFails) ==
    IF infoFails THEN Null
    ELSE [screenInfo |-> [activity |-> screen.activity],
          elements |->
            [clickable |-> IF queryFailsAt \in {1}
                              THEN <<>> ELSE CollectClickable(screen.clickable, 1),
             inputs |-> IF queryFailsAt \in {1, 2}
                              THEN <<>> ELSE CollectInputs(screen.inputs, 1),
             texts |-> IF queryFailsAt \in {1, 2, 3}
                              THEN <<>> ELSE CollectTexts(screen.texts, 1),
             buttons |-> <<>>,
             scrollable |-> IF queryFailsAt \in {1, 2, 3, 4}
                              THEN <<>> ELSE CollectScrollable(screen.scrollable, 1)],
          screenshot |-> takeScreenshot(<<"screen_", LastPart(screen.activity)>>, shotFails)]

\* ------------------------------------------------- the shallow exploration

\* the click budget of exploreClickableElements
ClickBudget == 5

\* what the device shows: the starting screen, or the screen behind descriptor j
ScreenOf(shown, nodes) ==
    IF shown = 0
        THEN Screen(<<"app", "Main">>, nodes, <<>>, <<>>, <<>>)
        ELSE Screen(<<"app", shown>>, <<>>, <<>>, <<>>, <<>>)

\* clickableElements = mainScreen.elements.clickable
clickableElements == mainScreen.elements.clickable

\* the loop's bound with a budget of one descriptor more
LoopLimit_offByOne(elements) == Min(Len(elements), ClickBudget + 1)

\* Math.min(clickableElements.length, 5)
LoopLimit(elements) == Min(Len(elements), ClickBudget)

\* the test with `||` replaced by `&&`
HasTextOrLabel_both(element) == Truthy(element.text) /\ Truthy(element.contentDesc)

\* element.text || element.contentDesc
HasTextOrLabel(element) == Truthy(element.text) \/ Truthy(element.contentDesc)

\* element.selectors.filter(s => s.startsWith('//')), empty without selectors
xpathSelectors(element) == SelectSeq(element.selectors, StartsWithSlashes)

\* an element handle: the locator it was obtained with
ElementOf(selector) == [selector |-> selector]

\* the fallback chain: by identifier, else by text, else by label
FallbackSelector(element) ==
    IF Truthy(element.resourceId) THEN XPathLocator("resource-id", element.resourceId)
    ELSE IF Truthy(element.text) THEN XPathLocator("text", element.text)
    ELSE IF Truthy(element.contentDesc) THEN XPathLocator("content-desc", element.contentDesc)
    ELSE NULL

\* the remote faults of one discovery pass over a screen with clickable nodes
\* only: the clickable query may reject
PassFaults == [info : BOOLEAN, query : {0, 1}, shot : BOOLEAN]

Pass(f) == discoverElementsOnCurrentScreen(ScreenOf(device, mainNodes), f.info, f.query, f.shot)

\* a remote call of the loop: during iteration `at`, on the element obtained
\* with locator `on` (or the query for it), with its result
Call(call, at, on, result) == [call |-> call, at |-> at, on |-> on, result |-> result]

\* the calls are written to the trail while tracing
Traced(calls) == trail' = IF tracing THEN trail \o calls ELSE trail

\* the end of one iteration of the for loop; targetElement and the selector
\* loop are local to the iteration
NextDescriptor ==
    /\ i' = i + 1
    /\ pc' = "loop"
    /\ targetElement' = Null
    /\ selPos' = 1

\* the starting snapshot taken but never appended to discoveredScreens
ExploreStart_noPush ==
    /\ pc = "start"
    /\ \E f \in PassFaults :
        /\ mainScreen' = Pass(f)
        /\ IF mainScreen' = Null
              THEN pc' = "done" /\ outcome' = "resolved"
              ELSE pc' = "loop" /\ UNCHANGED outcome
    /\ UNCHANGED <<mainNodes, tracing, trail, device, i, selPos, targetElement, discoveredScreens,
                   attempted, clicked, captured, backs>>
    /\ UNCHANGED otherVars

\* lines 253-256: the starting snapshot, before anything else
ExploreStart ==
    /\ pc = "start"
    /\ \E f \in PassFaults :
        /\ mainScreen' = Pass(f)
        /\ IF mainScreen' = Null
              THEN /\ pc' = "done"
                   /\ outcome' = "resolved"
                   /\ UNCHANGED discoveredScreens
              ELSE /\ discoveredScreens' = Append(discoveredScreens, mainScreen')
                   /\ pc' = "loop"
                   /\ UNCHANGED outcome
    /\ UNCHANGED <<mainNodes, tracing, trail, device, i, selPos, targetElement, attempted, clicked, captured, backs>>
    /\ UNCHANGED otherVars

\* line 264 false: the descriptor has neither text nor label
ExploreSkip ==
    /\ pc = "loop"
    /\ i <= LoopLimit(clickableElements)
    /\ ~HasTextOrLabel(clickableElements[i])
    /\ NextDescriptor
    /\ UNCHANGED <<mainNodes, tracing, trail, mainScreen, device, discoveredScreens, outcome,
                   attempted, clicked, captured, backs>>
    /\ UNCHANGED otherVars

\* lines 264-269: the descriptor is attempted
ExploreAttempt ==
    /\ pc = "loop"
    /\ i <= LoopLimit(clickableElements)
    /\ HasTextOrLabel(clickableElements[i])
    /\ attempted' = Append(attempted, i)
    /\ targetElement' = Null
    /\ selPos' = 1
    /\ pc' = "locate"
    /\ trail' = <<>>
    /\ UNCHANGED <<mainNodes, tracing, mainScreen, device, i, discoveredScreens, outcome, clicked,
                   captured, backs>>
    /\ UNCHANGED otherVars

\* line 261 false: the loop is over and the promise resolves
ExploreFinish ==
    /\ pc = "loop"
    /\ i > LoopLimit(clickableElements)
    /\ pc' = "done"
    /\ outcome' = "resolved"
    /\ UNCHANGED <<mainNodes, tracing, trail, mainScreen, device, i, selPos, targetElement, discoveredScreens,
                   attempted, clicked, captured, backs>>
    /\ UNCHANGED otherVars

\* the selector loop without its `break`: every selector is tried
ExploreLocate_noBreak ==
    /\ pc = "locate"
    /\ selPos <= Len(xpathSelectors(clickableElements[i]))
    /\ \E r \in {"query throws", "displayed", "not displayed", "isDisplayed throws"} :
        /\ targetElement' = IF r = "query throws" THEN targetElement
                            ELSE ElementOf(xpathSelectors(clickableElements[i])[selPos])
        /\ pc' = "locate"
        /\ selPos' = selPos + 1
        /\ LET selector == xpathSelectors(clickableElements[i])[selPos]
           IN  Traced(IF r = "query throws"
                         THEN << Call("$", i, selector, "throws") >>
                         ELSE << Call("$", i, selector, "ok"),
                                 Call("isDisplayed", i, selector, r) >>)
    /\ UNCHANGED <<mainNodes, tracing, mainScreen, device, i, discoveredScreens, outcome,
                   attempted, clicked, captured, backs>>
    /\ UNCHANGED otherVars

\* lines 275-284: one XPath selector is tried; a throw of $() or of
\* isDisplayed() is swallowed and the next selector is tried
ExploreLocate ==
    /\ pc = "locate"
    /\ selPos <= Len(xpathSelectors(clickableElements[i]))
    /\ \E r \in {"query throws", "displayed", "not displayed", "isDisplayed throws"} :
        /\ targetElement' = IF r = "query throws" THEN targetElement
                            ELSE ElementOf(xpathSelectors(clickableElements[i])[selPos])
        /\ IF r = "displayed"
              THEN pc' = "check" /\ UNCHANGED selPos
              ELSE pc' = "locate" /\ selPos' = selPos + 1
        /\ LET selector == xpathSelectors(clickableElements[i])[selPos]
           IN  Traced(IF r = "query throws"
                         THEN << Call("$", i, selector, "throws") >>
                         ELSE << Call("$", i, selector, "ok"),
                                 Call("isDisplayed", i, selector, r) >>)
    /\ UNCHANGED <<mainNodes, tracing, mainScreen, device, i, discoveredScreens, outcome,
                   attempted, clicked, captured, backs>>
    /\ UNCHANGED otherVars

\* the selectors are exhausted: lines 288 and 298
ExploreLocateEnd ==
    /\ pc = "locate"
    /\ selPos > Len(xpathSelectors(clickableElements[i]))
    /\ pc' = IF targetElement = Null THEN "fallback" ELSE "check"
    /\ UNCHANGED <<mainNodes, tracing, trail, mainScreen, device, i, selPos, targetElement, discoveredScreens, outcome,
                   attempted, clicked, captured, backs>>
    /\ UNCHANGED otherVars

\* the fallback's element clicked without the isDisplayed() test
ExploreFallback_unchecked ==
    /\ pc = "fallback"
    /\ \E ok \in BOOLEAN :
        IF ok /\ FallbackSelector(clickableElements[i]) # NULL
            THEN /\ targetElement' = ElementOf(FallbackSelector(clickableElements[i]))
                 /\ pc' = "click"
                 /\ Traced(<< Call("fallback $", i, FallbackSelector(clickableElements[i]), "ok") >>)
                 /\ UNCHANGED <<i, selPos>>
            ELSE /\ NextDescriptor
                 /\ Traced(<<>>)
    /\ UNCHANGED <<mainNodes, tracing, mainScreen, device, discoveredScreens, outcome,
                   attempted, clicked, captured, backs>>
    /\ UNCHANGED otherVars

\* lines 288-296 and 326: the fallback query; its throw ends the iteration
ExploreFallback ==
    /\ pc = "fallback"
    /\ \E ok \in BOOLEAN :
        IF ok /\ FallbackSelector(clickableElements[i]) # NULL
            THEN /\ targetElement' = ElementOf(FallbackSelector(clickableElements[i]))
                 /\ pc' = "check"
                 /\ Traced(<< Call("fallback $", i, FallbackSelector(clickableElements[i]), "ok") >>)
                 /\ UNCHANGED <<i, selPos>>
            ELSE /\ NextDescriptor
                 /\ Traced(IF FallbackSelector(clickableElements[i]) = NULL THEN <<>>
                           ELSE << Call("fallback $", i,
                                        FallbackSelector(clickableElements[i]), "throws") >>)
    /\ UNCHANGED <<mainNodes, tracing, mainScreen, device, discoveredScreens, outcome,
                   attempted, clicked, captured, backs>>
    /\ UNCHANGED otherVars

\* a target that is not displayed ends the whole loop (`break` for `continue`)
ExploreCheck_breaks ==
    /\ pc = "check"
    /\ \E r \in {"displayed", "not displayed", "isDisplayed throws"} :
        IF r = "displayed"
            THEN pc' = "click" /\ UNCHANGED <<i, targetElement, selPos, outcome>>
            ELSE /\ pc' = "done"
                 /\ outcome' = "resolved"
                 /\ UNCHANGED <<i, targetElement, selPos>>
    /\ UNCHANGED <<mainNodes, tracing, trail, mainScreen, device, discoveredScreens,
                   attempted, clicked, captured, backs>>
    /\ UNCHANGED otherVars

\* lines 300, 316-321: isDisplayed() of the target just before the click
ExploreCheck ==
    /\ pc = "check"
    /\ \E r \in {"displayed", "not displayed", "isDisplayed throws"} :
        /\ IF r = "displayed"
              THEN pc' = "click" /\ UNCHANGED <<i, targetElement, selPos>>
              ELSE NextDescriptor
        /\ Traced(<< Call("isDisplayed", i, targetElement.selector, r) >>)
    /\ UNCHANGED <<mainNodes, tracing, mainScreen, device, discoveredScreens, outcome,
                   attempted, clicked, captured, backs>>
    /\ UNCHANGED otherVars

\* the click with its throw not caught inside the loop
ExploreClick_uncaught ==
    /\ pc = "click"
    /\ clicked' = Append(clicked, i)
    /\ \E ok \in BOOLEAN :
        IF ok
            THEN /\ device' = i
                 /\ pc' = "snap"
                 /\ UNCHANGED <<i, outcome>>
            ELSE /\ pc' = "done"
                 /\ outcome' = "rejected"
                 /\ UNCHANGED <<device, i>>
    /\ UNCHANGED <<mainNodes, tracing, trail, mainScreen, selPos, targetElement, discoveredScreens,
                   attempted, captured, backs>>
    /\ UNCHANGED otherVars

\* lines 302-303, 319: click(); its throw ends the iteration
ExploreClick ==
    /\ pc = "click"
    /\ clicked' = Append(clicked, i)
    /\ \E ok \in BOOLEAN :
        /\ IF ok
              THEN /\ device' = i
                   /\ pc' = "snap"
                   /\ UNCHANGED <<i, targetElement, selPos>>
              ELSE /\ NextDescriptor
                   /\ UNCHANGED device
        /\ Traced(<< Call("click", i, targetElement.selector,
                          IF ok THEN "ok" ELSE "throws") >>)
    /\ UNCHANGED <<mainNodes, tracing, mainScreen, discoveredScreens, outcome,
                   attempted, captured, backs>>
    /\ UNCHANGED otherVars

\* the new snapshot appended twice
ExploreSnap_pushesTwice ==
    /\ pc = "snap"
    /\ \E f \in PassFaults :
        LET newScreen == Pass(f)
        IN  IF newScreen = Null
                THEN UNCHANGED <<discoveredScreens, captured>>
                ELSE /\ discoveredScreens' =
                            Append(Append(discoveredScreens, newScreen), newScreen)
                     /\ captured' = Append(captured, i)
    /\ pc' = "back"
    /\ UNCHANGED <<mainNodes, tracing, trail, mainScreen, device, i, selPos, targetElement, outcome,
                   attempted, clicked, backs>>
    /\ UNCHANGED otherVars

\* lines 306-310: the snapshot of the screen behind the click
ExploreSnap ==
    /\ pc = "snap"
    /\ \E f \in PassFaults :
        LET newScreen == Pass(f)
        IN  IF newScreen = Null
                THEN UNCHANGED <<discoveredScreens, captured>>
                ELSE /\ discoveredScreens' = Append(discoveredScreens, newScreen)
                     /\ captured' = Append(captured, i)
    /\ pc' = "back"
    /\ UNCHANGED <<mainNodes, tracing, trail, mainScreen, device, i, selPos, targetElement, outcome,
                   attempted, clicked, backs>>
    /\ UNCHANGED otherVars

\* the iteration ended without back()
ExploreBack_skipped ==
    /\ pc = "back"
    /\ NextDescriptor
    /\ UNCHANGED <<mainNodes, tracing, trail, mainScreen, device, discoveredScreens, outcome,
                   attempted, clicked, captured, backs>>
    /\ UNCHANGED otherVars

\* lines 314-315, 319: back(); thrown or not, the iteration ends
ExploreBack ==
    /\ pc = "back"
    /\ backs' = Append(backs, i)
    /\ \E ok \in BOOLEAN :
        /\ device' = IF ok THEN 0 ELSE device
        /\ Traced(<< Call("back", i, <<>>, IF ok THEN "ok" ELSE "throws") >>)
    /\ NextDescriptor
    /\ UNCHANGED <<mainNodes, tracing, mainScreen, discoveredScreens, outcome,
                   attempted, clicked, captured>>
    /\ UNCHANGED otherVars

\* ------------------------------------------------- ElementFinder

FinderNode(className, resourceId, text, clickable, checkable, bounds, shown) ==
    [className |-> className, resourceId |-> resourceId, text |-> text,
     contentDesc |-> NULL, clickable |-> clickable, checkable |-> checkable,
     enabled |-> <<"true">>, bounds |-> bounds, shown |-> shown]

\* a button whose identifier holds "btn"
ButtonA == FinderNode(<<"android.widget.", "Button">>, <<"btn">>, <<"a">>, <<"true">>, <<"false">>, Rect, "yes")

\* the same button after a re-layout: other bounds, a trailing blank in the
\* text, no longer clickable nor enabled
ButtonMoved ==
    [FinderNode(<<"android.widget.", "Button">>, <<"btn">>, <<"a", " ">>, <<"false">>,
                <<"false">>, <<0, 5, 10, 10>>, "yes") EXCEPT !.enabled = <<"false">>]

\* a button whose isDisplayed() rejects
ButtonStale == FinderNode(<<"android.widget.", "Button">>, <<"a">>, <<"a">>, <<"true">>, <<"false">>, Rect, "throws")

TextA == FinderNode(<<"android.widget.", "TextView">>, NULL, <<"a">>, <<"false">>, <<"false">>, Rect, "yes")

\* an input whose identifier holds "edit"
EditA == FinderNode(<<"android.widget.", "EditText">>, <<"edit">>, <<>>, <<"true">>, <<"false">>, Rect, "yes")

CheckA == FinderNode(<<"android.widget.", "CheckBox">>, <<"a">>, <<"a">>, <<"true">>, <<"true">>, Rect, "yes")

\* an image button: an image, and clickable
ImageA == FinderNode(<<"android.widget.", "ImageButton">>, <<"a">>, <<>>, <<"true">>, <<"false">>, Rect, "yes")

\* a list that is in the UI tree but not on screen
ListA == FinderNode(<<"android.widget.", "ListView">>, <<"a">>, <<>>, <<"false">>, <<"false">>, Rect, "no")

\* a widget of the application's own
CustomA == FinderNode(<<"com.app.", "Gauge">>, <<"a">>, <<>>, <<"false">>, <<"false">>, Rect, "yes")

\* contains(@attr, "piece"): the piece is one atom of the value
Contains(value, piece) == value # NULL /\ value # THROWS /\ \E n \in 1..Len(value) : value[n] = piece

\* the structural queries of the find* methods, as the device answers them
Matches(selector, node) ==
    CASE selector = "//android.widget.Button" -> node.className = <<"android.widget.", "Button">>
      [] selector = "//*[@clickable=\"true\" and @text]" -> node.clickable = <<"true">>
      [] selector = "//*[contains(@resource-id, \"button\")]" -> Contains(node.resourceId, "button")
      [] selector = "//*[contains(@resource-id, \"btn\")]" -> Contains(node.resourceId, "btn")
      [] selector = "//android.widget.EditText" -> node.className = <<"android.widget.", "EditText">>
      [] selector = "//*[contains(@resource-id, \"edit\")]" -> Contains(node.resourceId, "edit")
      [] selector = "//*[contains(@resource-id, \"input\")]" -> Contains(node.resourceId, "input")
      [] selector = "//android.widget.TextView" -> node.className = <<"android.widget.", "TextView">>
      [] selector = "//android.widget.ImageView" -> node.className = <<"android.widget.", "ImageView">>
      [] selector = "//android.widget.ImageButton" -> node.className = <<"android.widget.", "ImageButton">>
      [] selector = "//android.widget.ListView" -> node.className = <<"android.widget.", "ListView">>
      [] selector = "//android.widget.RecyclerView" -> node.className = <<"android.widget.", "RecyclerView">>
      [] selector = "//androidx.recyclerview.widget.RecyclerView" ->
              node.className = <<"androidx.recyclerview.widget.", "RecyclerView">>
      [] selector = "//android.widget.CheckBox" -> node.className = <<"android.widget.", "CheckBox">>
      [] selector = "//*[@checkable=\"true\"]" -> node.checkable = <<"true">>
      [] selector = "//*[@resource-id]" -> node.resourceId # NULL

\* driver.$$(selector) on the screen shown
Query(selector, screen) == SelectSeq(screen, LAMBDA node : Matches(selector, node))

\* the default of `enabled` turned to 'false'
getElementInfo_enabledFalse(node) ==
    LET text == ReadOr(node.text, <<>>)
        className == ReadOr(node.className, <<>>)
        resourceId == ReadOr(node.resourceId, <<>>)
        contentDesc == ReadOr(node.contentDesc, <<>>)
        clickable == ReadOr(node.clickable, <<"false">>)
        enabled == ReadOr(node.enabled, <<"false">>)
        bounds == ReadOr(node.bounds, NoRect)
    IN  IF text = NULL
            THEN [text |-> <<>>, className |-> <<>>, resourceId |-> <<>>, contentDesc |-> <<>>,
                  clickable |-> FALSE, enabled |-> FALSE, bounds |-> NoRect, selectors |-> <<>>]
            ELSE [text |-> Trim(text), className |-> className, resourceId |-> resourceId,
                  contentDesc |-> contentDesc, clickable |-> (clickable = <<"true">>),
                  enabled |-> (enabled = <<"true">>), bounds |-> bounds,
                  selectors |-> generateSelectors(text, className, resourceId, contentDesc)]

\* the reads without their own catch: any throw reaches the outer catch
getElementInfo_oneTry(node) ==
    IF \/ THROWS \in {node.text, node.className, node.resourceId, node.contentDesc}
       \/ THROWS \in {node.clickable, node.enabled}
       \/ node.bounds = THROWS
       \/ node.text = NULL
        THEN [text |-> <<>>, className |-> <<>>, resourceId |-> <<>>, contentDesc |-> <<>>,
              clickable |-> FALSE, enabled |-> TRUE, bounds |-> NoRect, selectors |-> <<>>]
        ELSE [text |-> Trim(node.text), className |-> node.className,
              resourceId |-> node.resourceId, contentDesc |-> node.contentDesc,
              clickable |-> (node.clickable = <<"true">>),
              enabled |-> (node.enabled = <<"true">>), bounds |-> node.bounds,
              selectors |-> generateSelectors(node.text, node.className, node.resourceId,
                                              node.contentDesc)]

\* getElementInfo(element); the outer catch is reached when trim() has no string
getElementInfo(node) ==
    LET text == ReadOr(node.text, <<>>)
        className == ReadOr(node.className, <<>>)
        resourceId == ReadOr(node.resourceId, <<>>)
        contentDesc == ReadOr(node.contentDesc, <<>>)
        clickable == ReadOr(node.clickable, <<"false">>)
        enabled == ReadOr(node.enabled, <<"true">>)
        bounds == ReadOr(node.bounds, NoRect)
    IN  IF text = NULL
            THEN [text |-> <<>>, className |-> <<>>, resourceId |-> <<>>, contentDesc |-> <<>>,
                  clickable |-> FALSE, enabled |-> TRUE, bounds |-> NoRect, selectors |-> <<>>]
            ELSE [text |-> Trim(text), className |-> className, resourceId |-> resourceId,
                  contentDesc |-> contentDesc, clickable |-> (clickable = <<"true">>),
                  enabled |-> (enabled = <<"true">>), bounds |-> bounds,
                  selectors |-> generateSelectors(text, className, resourceId, contentDesc)]

\* the duplicate test with the bounds added to the key
isDuplicate_withBounds(array, newItem) ==
    \E n \in 1..Len(array) :
        /\ array[n].resourceId = newItem.resourceId
        /\ array[n].text = newItem.text
        /\ array[n].className = newItem.className
        /\ array[n].bounds = newItem.bounds

\* isDuplicate(array, newItem)
isDuplicate(array, newItem) ==
    \E n \in 1..Len(array) :
        /\ array[n].resourceId = newItem.resourceId
        /\ array[n].text = newItem.text
        /\ array[n].className = newItem.className

\* info.inputType / info.checked, set on the fresh descriptor before the test
WithExtra(info, kind) ==
    IF kind = "inputs" THEN info @@ [inputType |-> "text"]
    ELSE IF kind = "checkboxes" THEN info @@ [checked |-> "false"]
    ELSE info

\* `for (const element of elements)` inside the selector's try block: a throw
\* of isDisplayed() leaves the loop, the rest of this query's nodes is not seen
RECURSIVE ScanNodes(_, _, _, _)
ScanNodes(list, nodes, n, kind) ==
    IF n > Len(nodes) THEN list
    ELSE IF nodes[n].shown = "throws" THEN list
    ELSE IF nodes[n].shown = "no" THEN ScanNodes(list, nodes, n + 1, kind)
    ELSE LET info == WithExtra(getElementInfo(nodes[n]), kind)
         IN  ScanNodes(IF isDuplicate(list, info) THEN list ELSE Append(list, info),
                       nodes, n + 1, kind)

\* `for (const selector of selectors)`: a query in `failing` throws and the
\* next selector is tried
RECURSIVE ScanSelectors(_, _, _, _, _)
ScanSelectors(list, selectors, failing, screen, kind) ==
    IF selectors = <<>> THEN list
    ELSE ScanSelectors(IF Head(selectors) \in failing THEN list
                       ELSE ScanNodes(list, Query(Head(selectors), screen), 1, kind),
                       Tail(selectors), failing, screen, kind)

\* findTextElements: the first 20 nodes, each in its own try block, kept only
\* with a text
RECURSIVE ScanTexts(_, _, _)
ScanTexts(list, nodes, n) ==
    IF n > Min(Len(nodes), TextCap) THEN list
    ELSE IF nodes[n].shown # "yes" THEN ScanTexts(list, nodes, n + 1)
    ELSE LET info == getElementInfo(nodes[n])
         IN  ScanTexts(IF TruthyTrimmed(info.text) /\ ~isDuplicate(list, info)
                          THEN Append(list, info) ELSE list,
                       nodes, n + 1)

\* the custom pass looks at the first 15 nodes only
CustomCap == 15

\* className.startsWith('android.widget.') || className.startsWith('android.view.')
IsPlatformClass(className) ==
    Len(className) >= 1 /\ className[1] \in {"android.widget.", "android.view."}

\* findCustomElements: the first 15 nodes with an identifier, each in its own
\* try block, kept when the class is not a platform widget
RECURSIVE ScanCustom(_, _, _)
ScanCustom(list, nodes, n) ==
    IF n > Min(Len(nodes), CustomCap) THEN list
    ELSE IF nodes[n].shown # "yes" THEN ScanCustom(list, nodes, n + 1)
    ELSE IF nodes[n].resourceId = THROWS \/ nodes[n].className \in {THROWS, NULL}
        THEN ScanCustom(list, nodes, n + 1)
    ELSE IF Truthy(nodes[n].resourceId) /\ ~IsPlatformClass(nodes[n].className)
        THEN LET info == getElementInfo(nodes[n])
             IN  ScanCustom(IF isDuplicate(list, info) THEN list ELSE Append(list, info),
                            nodes, n + 1)
    ELSE ScanCustom(list, nodes, n + 1)

ButtonSelectors ==
    <<"//android.widget.Button", "//*[@clickable=\"true\" and @text]",
      "//*[contains(@resource-id, \"button\")]", "//*[contains(@resource-id, \"btn\")]">>

InputSelectors ==
    <<"//android.widget.EditText", "//*[contains(@resource-id, \"edit\")]",
      "//*[contains(@resource-id, \"input\")]">>

ImageSelectors == <<"//android.widget.ImageView", "//android.widget.ImageButton">>

ListSelectors ==
    <<"//android.widget.ListView", "//android.widget.RecyclerView",
      "//androidx.recyclerview.widget.RecyclerView">>

CheckboxSelectors == <<"//android.widget.CheckBox", "//*[@checkable=\"true\"]">>

\* the queries of one find* call that throw: none, or one of them
FailingOf(selectors) == {{}} \cup {{selectors[n]} : n \in 1..Len(selectors)}

\* what a find* method built on the selector loop leaves in foundElements
FoundBySelectors(kind, selectors, failing) ==
    [foundElements EXCEPT ![kind] =
        ScanSelectors(foundElements[kind], selectors, failing, finderScreen, kind)]

findButtons ==
    /\ \E failing \in FailingOf(ButtonSelectors) :
          foundElements' = FoundBySelectors("buttons", ButtonSelectors, failing)
    /\ UNCHANGED <<finderScreen, changes, selVars, expVars, sesVars, restVars>>

findInputFields ==
    /\ \E failing \in FailingOf(InputSelectors) :
          foundElements' = FoundBySelectors("inputs", InputSelectors, failing)
    /\ UNCHANGED <<finderScreen, changes, selVars, expVars, sesVars, restVars>>

findImageElements ==
    /\ \E failing \in FailingOf(ImageSelectors) :
          foundElements' = FoundBySelectors("images", ImageSelectors, failing)
    /\ UNCHANGED <<finderScreen, changes, selVars, expVars, sesVars, restVars>>

findListElements ==
    /\ \E failing \in FailingOf(ListSelectors) :
          foundElements' = FoundBySelectors("lists", ListSelectors, failing)
    /\ UNCHANGED <<finderScreen, changes, selVars, expVars, sesVars, restVars>>

findCheckboxes ==
    /\ \E failing \in FailingOf(CheckboxSelectors) :
          foundElements' = FoundBySelectors("checkboxes", CheckboxSelectors, failing)
    /\ UNCHANGED <<finderScreen, changes, selVars, expVars, sesVars, restVars>>

\* findTextElements: its one query is outside every try block, so a throw of
\* the query rejects the call and leaves the lists as they were
findTextElements ==
    /\ \E failing \in FailingOf(<<"//android.widget.TextView">>) :
          foundElements' =
              IF failing # {} THEN foundElements
              ELSE [foundElements EXCEPT !.texts =
                      ScanTexts(foundElements.texts,
                                Query("//android.widget.TextView", finderScreen), 1)]
    /\ UNCHANGED <<finderScreen, changes, selVars, expVars, sesVars, restVars>>

findCustomElements ==
    /\ \E failing \in FailingOf(<<"//*[@resource-id]">>) :
          foundElements' =
              IF failing # {} THEN foundElements
              ELSE [foundElements EXCEPT !.custom =
                      ScanCustom(foundElements.custom,
                                 Query("//*[@resource-id]", finderScreen), 1)]
    /\ UNCHANGED <<finderScreen, changes, selVars, expVars, sesVars, restVars>>

\* a re-layout moves the button: other bounds, text padded, not clickable
Relayout(node) ==
    IF node = ButtonA THEN ButtonMoved
    ELSE IF node = ButtonMoved THEN ButtonA
    ELSE node

\* ------------------------------------------------- the session life cycle

Programs == {"runDeepInspection", "runElementFinder", "discoverElements"}

\* the steps of the try block after remote() has returned; a step marked TRUE
\* can throw, the others catch their own failures or cannot fail
Body(p) ==
    IF p = "runDeepInspection" THEN
        << <<"wait", FALSE>>, <<"exploreClickableElements", TRUE>>,
           <<"generateTestCases", TRUE>>, <<"getCurrentPackage", FALSE>>,
           <<"getCurrentActivity", FALSE>>, <<"getWindowSize", FALSE>>,
           <<"writeFileSync", TRUE>>, <<"summary", FALSE>> >>
    ELSE IF p = "runElementFinder" THEN
        << <<"wait", FALSE>>, <<"findAllElementTypes", TRUE>>,
           <<"saveScreenshot", TRUE>>, <<"getCurrentPackage", FALSE>>,
           <<"getCurrentActivity", FALSE>>, <<"getWindowSize", FALSE>>,
           <<"writeFileSync", TRUE>>, <<"summary", FALSE>> >>
    ELSE
        << <<"pause", TRUE>>, <<"saveScreenshot", TRUE>>, <<"getPageSource", TRUE>>,
           <<"writeFileSync", TRUE>>, <<"$$ clickable", TRUE>>, <<"clickable loop", FALSE>>,
           <<"$$ texts", TRUE>>, <<"texts loop", FALSE>>, <<"$$ buttons", TRUE>>,
           <<"buttons loop", FALSE>>, <<"keywords loop", FALSE>> >>

\* the two runners create their directories before the try block
HasMkdirs(p) == p \in {"runDeepInspection", "runElementFinder"}

\* fs.mkdirSync before the try block: its throw rejects before any connection
SessionMkdirs ==
    /\ sesPc = "mkdirs"
    /\ \E ok \in BOOLEAN :
        IF ok THEN /\ sesPc' = "remote"
                   /\ UNCHANGED <<thrown, settled>>
              ELSE /\ sesPc' = "settled"
                   /\ thrown' = "mkdirSync"
                   /\ settled' = "rejected"
    /\ UNCHANGED <<prog, driver, step, sessionsCreated, deleteCalls>>
    /\ UNCHANGED <<selVars, expVars, finVars, restVars>>

\* driver = await remote(...)
SessionRemote ==
    /\ sesPc = "remote"
    /\ \E ok \in BOOLEAN :
        IF ok THEN /\ driver' = [session |-> sessionsCreated + 1]
                   /\ sessionsCreated' = sessionsCreated + 1
                   /\ sesPc' = "body"
                   /\ UNCHANGED thrown
              ELSE /\ sesPc' = "catch"
                   /\ thrown' = "remote"
                   /\ UNCHANGED <<driver, sessionsCreated>>
    /\ UNCHANGED <<prog, step, settled, deleteCalls>>
    /\ UNCHANGED <<selVars, expVars, finVars, restVars>>

\* one step of the body; the last one is followed by `return` and the finally block
SessionStep ==
    /\ sesPc = "body"
    /\ step <= Len(Body(prog))
    /\ \E ok \in BOOLEAN :
        IF ok \/ ~Body(prog)[step][2]
            THEN /\ step' = step + 1
                 /\ sesPc' = IF step = Len(Body(prog)) THEN "finally" ELSE "body"
                 /\ UNCHANGED thrown
            ELSE /\ sesPc' = "catch"
                 /\ thrown' = Body(prog)[step][1]
                 /\ UNCHANGED step
    /\ UNCHANGED <<prog, driver, settled, sessionsCreated, deleteCalls>>
    /\ UNCHANGED <<selVars, expVars, finVars, restVars>>

\* a catch block that leaves the function without the release
SessionCatch_noRelease ==
    /\ sesPc = "catch"
    /\ sesPc' = "settled"
    /\ settled' = "resolved"
    /\ UNCHANGED <<prog, driver, step, thrown, sessionsCreated, deleteCalls>>
    /\ UNCHANGED <<selVars, expVars, finVars, restVars>>

\* the catch block: the error is logged, then the finally block runs
SessionCatch ==
    /\ sesPc = "catch"
    /\ sesPc' = "finally"
    /\ UNCHANGED <<prog, driver, step, thrown, settled, sessionsCreated, deleteCalls>>
    /\ UNCHANGED <<selVars, expVars, finVars, restVars>>

\* a finally block that settles the promise without the release
SessionFinally_noRelease ==
    /\ sesPc = "finally"
    /\ sesPc' = "settled"
    /\ settled' = "resolved"
    /\ UNCHANGED <<prog, driver, step, thrown, sessionsCreated, deleteCalls>>
    /\ UNCHANGED <<selVars, expVars, finVars, restVars>>

\* finally { if (driver) await driver.deleteSession() }: a throw of
\* deleteSession rejects the promise, otherwise it resolves
SessionFinally ==
    /\ sesPc = "finally"
    /\ sesPc' = "settled"
    /\ IF driver # Null
          THEN /\ deleteCalls' = deleteCalls + 1
               /\ \E ok \in BOOLEAN : settled' = IF ok THEN "resolved" ELSE "rejected"
          ELSE /\ settled' = "resolved"
               /\ UNCHANGED deleteCalls
    /\ UNCHANGED <<prog, driver, step, thrown, sessionsCreated>>
    /\ UNCHANGED <<selVars, expVars, finVars, restVars>>

\* ------------------------------------------------- initial states and steps

\* longest starting screen drawn for the exploration
MaxNodes == 6

SeqsUpTo(S, n) == UNION {[1..m -> S] : m \in 0..n}

\* longest starting screen drawn with the rarer kinds of node
MaxOddNodes == 3

\* the starting screens: long ones of text-only and bare nodes, short ones of
\* full, blank-label and hidden nodes
ExploreScreens ==
    SeqsUpTo({NodeText, NodeBare}, MaxNodes)
        \cup SeqsUpTo({NodeFull, NodeBlankLabel, NodeHidden}, MaxOddNodes)

SelIdle ==
    /\ selIn = NotYet
    /\ selDeep = NotYet
    /\ selFinder = NotYet

ExploreIdle ==
    /\ mainNodes = <<>>
    /\ device = 0
    /\ pc = "idle"
    /\ mainScreen = Null
    /\ i = 1
    /\ selPos = 1
    /\ targetElement = Null
    /\ discoveredScreens = <<>>
    /\ outcome = "pending"
    /\ attempted = <<>>
    /\ clicked = <<>>
    /\ captured = <<>>
    /\ backs = <<>>
    /\ tracing = FALSE
    /\ trail = <<>>

\* new UIElementDiscovery(driver), on a device showing some starting screen
ExploreInit ==
    /\ mainNodes \in ExploreScreens
    /\ device = 0
    /\ pc = "start"
    /\ mainScreen = Null
    /\ i = 1
    /\ selPos = 1
    /\ targetElement = Null
    /\ discoveredScreens = <<>>
    /\ outcome = "pending"
    /\ attempted = <<>>
    /\ clicked = <<>>
    /\ captured = <<>>
    /\ backs = <<>>
    /\ tracing = FALSE
    /\ trail = <<>>

\* the exploration with its remote calls traced, on a short starting screen
MaxTracedNodes == 2

TracedScreens ==
    SeqsUpTo({NodeFull, NodeText, NodeBlankLabel, NodeHidden, NodeBare}, MaxTracedNodes)

TracedInit ==
    /\ mainNodes \in TracedScreens
    /\ device = 0
    /\ pc = "start"
    /\ mainScreen = Null
    /\ i = 1
    /\ selPos = 1
    /\ targetElement = Null
    /\ discoveredScreens = <<>>
    /\ outcome = "pending"
    /\ attempted = <<>>
    /\ clicked = <<>>
    /\ captured = <<>>
    /\ backs = <<>>
    /\ tracing = TRUE
    /\ trail = <<>>

NextExplore ==
    \/ ExploreStart
    \/ ExploreSkip
    \/ ExploreAttempt
    \/ ExploreFinish
    \/ ExploreLocate
    \/ ExploreLocateEnd
    \/ ExploreFallback
    \/ ExploreCheck
    \/ ExploreClick
    \/ ExploreSnap
    \/ ExploreBack

\* longest screen shown to the finder
MaxFinderNodes == 2

\* how often the screen is laid out again between find* calls
MaxChanges == 1

FinderNodes ==
    {ButtonA, ButtonMoved, ButtonStale, TextA, EditA, CheckA, ImageA, ListA, CustomA}

FinderScreens == SeqsUpTo(FinderNodes, MaxFinderNodes)

\* the constructor's foundElements
EmptyFound ==
    [buttons |-> <<>>, inputs |-> <<>>, texts |-> <<>>, images |-> <<>>, lists |-> <<>>,
     checkboxes |-> <<>>, radioButtons |-> <<>>, switches |-> <<>>, sliders |-> <<>>,
     tabs |-> <<>>, menus |-> <<>>, custom |-> <<>>]

FinderIdle ==
    /\ finderScreen = <<>>
    /\ foundElements = EmptyFound
    /\ changes = 0

\* new ElementFinder(driver), on a device showing some screen
FinderInit ==
    /\ finderScreen \in FinderScreens
    /\ foundElements = EmptyFound
    /\ changes = 0

\* the device: the application lays the screen out again between two calls
ScreenChanges ==
    /\ changes < MaxChanges
    /\ changes' = changes + 1
    /\ finderScreen' = [n \in 1..Len(finderScreen) |-> Relayout(finderScreen[n])]
    /\ UNCHANGED <<foundElements, selVars, expVars, sesVars, restVars>>

NextFinder ==
    \/ findButtons
    \/ findInputFields
    \/ findTextElements
    \/ findImageElements
    \/ findListElements
    \/ findCheckboxes
    \/ findCustomElements
    \/ ScreenChanges

SessionIdle ==
    /\ prog = "none"
    /\ sesPc = "idle"
    /\ driver = Null
    /\ step = 1
    /\ thrown = "none"
    /\ settled = "pending"
    /\ sessionsCreated = 0
    /\ deleteCalls = 0

\* one of the three functions is called
SessionInit ==
    /\ prog \in Programs
    /\ sesPc = IF HasMkdirs(prog) THEN "mkdirs" ELSE "remote"
    /\ driver = Null
    /\ step = 1
    /\ thrown = "none"
    /\ settled = "pending"
    /\ sessionsCreated = 0
    /\ deleteCalls = 0

NextSession ==
    \/ SessionMkdirs
    \/ SessionRemote
    \/ SessionStep
    \/ SessionCatch
    \/ SessionFinally

\* ------------------------------------------------- selector synthesis, applied

\* the values an attribute read can hand to the synthesizers
AttrValues == Strs(MaxLen) \cup {NULL}

SelInit ==
    /\ selIn \in [resourceId : AttrValues, text : Strs(MaxLen), contentDesc : AttrValues]
    /\ selDeep = NotYet
    /\ selFinder = NotYet

CallGenerateSelector ==
    /\ selDeep = NotYet
    /\ selDeep' = generateSelector(<<>>, selIn.text, selIn.contentDesc, selIn.resourceId)
    /\ UNCHANGED <<selIn, selFinder, expVars, finVars, sesVars, restVars>>

CallGenerateSelectors ==
    /\ selFinder = NotYet
    /\ selFinder' = generateSelectors(selIn.text, <<>>, selIn.resourceId, selIn.contentDesc)
    /\ UNCHANGED <<selIn, selDeep, expVars, finVars, sesVars, restVars>>

NextSelectors == CallGenerateSelector \/ CallGenerateSelectors

\* ------------------------------------------------- one discovery pass, call by call

\* a clickable node whose isDisplayed() rejects
NodeStale == Node(<<"a">>, NULL, NULL, "throws")

\* a promise that rejected
Rejected == [rejected |-> TRUE]

\* a query whose result is looked at in full
NoCap == <<>>

\* one structural query of a pass: the list it feeds, its locator, the cap on
\* the nodes looked at, and where a throw of the query and a throw of
\* isDisplayed() lead
PlanEntry(kind, selector, cap, queryThrows, visibleThrows) ==
    [kind |-> kind, selector |-> selector, cap |-> cap,
     queryThrows |-> queryThrows, visibleThrows |-> visibleThrows]

\* discoverElementsOnCurrentScreen: four queries inside one try block, every
\* node in a try block of its own
DeepPlan ==
    << PlanEntry("clickable", "//*[@clickable=\"true\"]", NoCap, "leave try", "next node"),
       PlanEntry("inputs", "//android.widget.EditText", NoCap, "leave try", "next node"),
       PlanEntry("texts", "//android.widget.TextView", <<TextCap>>, "leave try", "next node"),
       PlanEntry("scrollable", "//*[@scrollable=\"true\"]", NoCap, "leave try", "next node") >>

\* `for (const selector of selectors) try { ... }`: the query and the loop over
\* its nodes share the selector's try block
SelectorLoop(kind, selectors) ==
    [n \in 1..Len(selectors) |->
        PlanEntry(kind, selectors[n], NoCap, "next query", "next query")]

\* findAllElementTypes: the seven find* methods in their order
FinderPlan ==
    SelectorLoop("buttons", ButtonSelectors)
    \o SelectorLoop("inputs", InputSelectors)
    \o << PlanEntry("texts", "//android.widget.TextView", <<TextCap>>, "reject", "next node") >>
    \o SelectorLoop("images", ImageSelectors)
    \o SelectorLoop("lists", ListSelectors)
    \o SelectorLoop("checkboxes", CheckboxSelectors)
    \o << PlanEntry("custom", "//*[@resource-id]", <<CustomCap>>, "next query", "next node") >>

Passes == {"discoverElementsOnCurrentScreen", "findAllElementTypes"}

PlanOf(pass) == IF pass = "discoverElementsOnCurrentScreen" THEN DeepPlan ELSE FinderPlan

Plan == PlanOf(passOf)

\* driver.$$(selector), as the device answers it
QueryResult(q) ==
    IF passOf = "discoverElementsOnCurrentScreen"
        THEN passScreen[Plan[q].kind]
        ELSE Query(Plan[q].selector, passScreen)

\* every node of the result looked at, whatever the entry's cap
NodeLimit_noCap(entry, nodes) == Len(nodes)

\* Math.min(length, 20), slice(0, 20), slice(0, 15); the other loops run over
\* the whole result
NodeLimit(entry, nodes) ==
    IF entry.cap = NoCap THEN Len(nodes) ELSE Min(Len(nodes), entry.cap[1])

\* a remote call issued on node n of query q, or a push of its descriptor
LogEntry(call, q, n, result) == [call |-> call, q |-> q, n |-> n, result |-> result]

\* the `elements` object of discoverElementsOnCurrentScreen
EmptyElements ==
    [clickable |-> <<>>, inputs |-> <<>>, texts |-> <<>>, buttons |-> <<>>, scrollable |-> <<>>]

\* getCurrentScreenInfo(): one of its four calls rejecting gives null
PassInfo ==
    /\ passPc = "info"
    /\ \E ok \in BOOLEAN :
        /\ passLog' = Append(passLog, LogEntry("getCurrentScreenInfo", 0, 0,
                                               IF ok THEN "ok" ELSE "throws"))
        /\ IF ok THEN passPc' = "query" /\ UNCHANGED passResult
                 ELSE passPc' = "done" /\ passResult' = Null
    /\ UNCHANGED <<passOf, passScreen, passFailAt, qPos, nodePos, found, passLists>>
    /\ UNCHANGED <<coreVars, tailVars, infoVars, pageVars, runVars>>

\* await this.driver.$$(selector): a throw goes where the enclosing try block
\* (or its absence) sends it
PassQuery ==
    /\ passPc = "query"
    /\ qPos <= Len(Plan)
    /\ passLog' = Append(passLog, LogEntry("$$", qPos, 0,
                                           IF passFailAt = qPos THEN "throws" ELSE "ok"))
    /\ IF passFailAt = qPos
          THEN /\ CASE Plan[qPos].queryThrows = "next query" ->
                          qPos' = qPos + 1 /\ UNCHANGED <<passPc, passResult>>
                    [] Plan[qPos].queryThrows = "leave try" ->
                          passPc' = "return" /\ UNCHANGED <<qPos, passResult>>
                    [] Plan[qPos].queryThrows = "reject" ->
                          passPc' = "done" /\ passResult' = Rejected /\ UNCHANGED qPos
               /\ UNCHANGED <<nodePos, found>>
          ELSE /\ found' = QueryResult(qPos)
               /\ nodePos' = 1
               /\ passPc' = "node"
               /\ UNCHANGED <<qPos, passResult>>
    /\ UNCHANGED <<passOf, passScreen, passFailAt, passLists>>
    /\ UNCHANGED <<coreVars, tailVars, infoVars, pageVars, runVars>>

\* the last query is behind
PassQueriesDone ==
    /\ passPc = "query"
    /\ qPos > Len(Plan)
    /\ passPc' = "return"
    /\ UNCHANGED <<passOf, passScreen, passFailAt, qPos, nodePos, found, passLists,
                   passLog, passResult>>
    /\ UNCHANGED <<coreVars, tailVars, infoVars, pageVars, runVars>>

\* a node that is not displayed is extracted all the same
PassVisible_hiddenToo ==
    /\ passPc = "node"
    /\ nodePos <= NodeLimit(Plan[qPos], found)
    /\ LET r == found[nodePos].shown
       IN  /\ passLog' = Append(passLog, LogEntry("isDisplayed", qPos, nodePos, r))
           /\ IF r \in {"yes", "no"}
                 THEN passPc' = "extract" /\ UNCHANGED <<qPos, nodePos>>
                 ELSE IF Plan[qPos].visibleThrows = "next node"
                 THEN nodePos' = nodePos + 1 /\ UNCHANGED <<qPos, passPc>>
                 ELSE qPos' = qPos + 1 /\ passPc' = "query" /\ UNCHANGED nodePos
    /\ UNCHANGED <<passOf, passScreen, passFailAt, found, passLists, passResult>>
    /\ UNCHANGED <<coreVars, tailVars, infoVars, pageVars, runVars>>

\* await element.isDisplayed(): false skips the node, a throw goes to the
\* catch of the node's or of the selector's try block
PassVisible ==
    /\ passPc = "node"
    /\ nodePos <= NodeLimit(Plan[qPos], found)
    /\ LET r == found[nodePos].shown
       IN  /\ passLog' = Append(passLog, LogEntry("isDisplayed", qPos, nodePos, r))
           /\ IF r = "yes"
                 THEN passPc' = "extract" /\ UNCHANGED <<qPos, nodePos>>
                 ELSE IF r = "no" \/ Plan[qPos].visibleThrows = "next node"
                 THEN nodePos' = nodePos + 1 /\ UNCHANGED <<qPos, passPc>>
                 ELSE qPos' = qPos + 1 /\ passPc' = "query" /\ UNCHANGED nodePos
    /\ UNCHANGED <<passOf, passScreen, passFailAt, found, passLists, passResult>>
    /\ UNCHANGED <<coreVars, tailVars, infoVars, pageVars, runVars>>

\* the loop over the query's nodes is through
PassNodesDone ==
    /\ passPc = "node"
    /\ nodePos > NodeLimit(Plan[qPos], found)
    /\ qPos' = qPos + 1
    /\ passPc' = "query"
    /\ UNCHANGED <<passOf, passScreen, passFailAt, nodePos, found, passLists, passLog,
                   passResult>>
    /\ UNCHANGED <<coreVars, tailVars, infoVars, pageVars, runVars>>

\* the descriptor the pass appends for the node at hand, <<>> when it appends
\* none: the loops of discoverElementsOnCurrentScreen push what they extract,
\* the find* methods push what isDuplicate lets through
Extracted(kind, node, index, list) ==
    IF passOf = "discoverElementsOnCurrentScreen"
    THEN CASE kind = "clickable" -> <<ClickableItem(node, index)>>
           [] kind = "inputs" -> <<InputItem(node, index)>>
           [] kind = "texts" -> IF TextKept(node) THEN <<TextItem(node, index)>> ELSE <<>>
           [] kind = "scrollable" -> <<ScrollableItem(node, index)>>
    ELSE IF kind = "custom"
    THEN IF node.resourceId = THROWS \/ node.className \in {THROWS, NULL} THEN <<>>
         ELSE IF Truthy(node.resourceId) /\ ~IsPlatformClass(node.className)
                    /\ ~isDuplicate(list, getElementInfo(node))
         THEN <<getElementInfo(node)>>
         ELSE <<>>
    ELSE IF kind = "texts"
    THEN IF TruthyTrimmed(getElementInfo(node).text) /\ ~isDuplicate(list, getElementInfo(node))
         THEN <<getElementInfo(node)>>
         ELSE <<>>
    ELSE IF isDuplicate(list, WithExtra(getElementInfo(node), kind)) THEN <<>>
         ELSE <<WithExtra(getElementInfo(node), kind)>>

\* the attribute reads on the node at hand and the push of its descriptor
PassExtract ==
    /\ passPc = "extract"
    /\ LET kind == Plan[qPos].kind
           item == Extracted(kind, found[nodePos], nodePos - 1, passLists[kind])
       IN  /\ passLists' = [passLists EXCEPT ![kind] = passLists[kind] \o item]
           /\ passLog' = passLog \o <<LogEntry("read", qPos, nodePos, "ok")>>
                           \o (IF item = <<>> THEN <<>>
                               ELSE <<LogEntry("push", qPos, nodePos, "ok")>>)
    /\ nodePos' = nodePos + 1
    /\ passPc' = "node"
    /\ UNCHANGED <<passOf, passScreen, passFailAt, qPos, found, passResult>>
    /\ UNCHANGED <<coreVars, tailVars, infoVars, pageVars, runVars>>

\* the return of discoverElementsOnCurrentScreen: the screenshot, then the
\* snapshot; a throw of takeScreenshot itself would reject the call
PassSnapshot ==
    /\ passPc = "return"
    /\ passOf = "discoverElementsOnCurrentScreen"
    /\ \E shotFails \in BOOLEAN :
        LET shot == takeScreenshot(<<"screen_", LastPart(passScreen.activity)>>, shotFails)
        IN  /\ passLog' = Append(passLog, LogEntry("saveScreenshot", 0, 0,
                                                   IF shotFails THEN "throws" ELSE "ok"))
            /\ passResult' =
                  IF shot = THROWS THEN Rejected
                  ELSE [screenInfo |-> [activity |-> passScreen.activity],
                        elements |-> passLists, screenshot |-> shot]
    /\ passPc' = "done"
    /\ UNCHANGED <<passOf, passScreen, passFailAt, qPos, nodePos, found, passLists>>
    /\ UNCHANGED <<coreVars, tailVars, infoVars, pageVars, runVars>>

\* return this.foundElements
PassFound ==
    /\ passPc = "return"
    /\ passOf = "findAllElementTypes"
    /\ passResult' = passLists
    /\ passPc' = "done"
    /\ UNCHANGED <<passOf, passScreen, passFailAt, qPos, nodePos, found, passLists, passLog>>
    /\ UNCHANGED <<coreVars, tailVars, infoVars, pageVars, runVars>>

\* longest screen drawn for a pass, the long lists aside
MaxPassNodes == 2

\* n times the same node
Repeat(node, n) == [m \in 1..n |-> node]

\* the screens discoverElementsOnCurrentScreen runs against; the long lists
\* hold one node more than the text cap
PassDeepScreens ==
    {Screen(<<"app", "Main">>, c, e, t, r) :
        c \in SeqsUpTo({NodeFull, NodeText, NodeHidden, NodeStale}, MaxPassNodes)
                 \cup {Repeat(NodeBare, TextCap + 1)},
        e \in {<<>>, <<NodeText>>},
        t \in {<<>>, <<NodeText, NodeBare>>, Repeat(NodeText, TextCap + 1)},
        r \in {<<>>, <<NodeBare>>}}

\* the screens findAllElementTypes runs against; the long lists hold one node
\* more than the cap of their kind
PassFinderScreens ==
    SeqsUpTo({ButtonA, ButtonStale, TextA, CheckA, ListA, CustomA}, MaxPassNodes)
        \cup {Repeat(TextA, TextCap + 1), Repeat(CustomA, CustomCap + 1),
              Repeat(ButtonA, TextCap + 1)}

\* a pass is called; at most one of its structural queries throws
PassInit ==
    /\ passOf \in Passes
    /\ passScreen \in (IF passOf = "discoverElementsOnCurrentScreen"
                          THEN PassDeepScreens ELSE PassFinderScreens)
    /\ passFailAt \in 0..Len(PlanOf(passOf))
    /\ passPc = IF passOf = "discoverElementsOnCurrentScreen" THEN "info" ELSE "query"
    /\ qPos = 1
    /\ nodePos = 1
    /\ found = <<>>
    /\ passLists = IF passOf = "discoverElementsOnCurrentScreen"
                      THEN EmptyElements ELSE EmptyFound
    /\ passLog = <<>>
    /\ passResult = Unset

NextPass ==
    \/ PassInfo
    \/ PassQuery
    \/ PassQueriesDone
    \/ PassVisible
    \/ PassNodesDone
    \/ PassExtract
    \/ PassSnapshot
    \/ PassFound

\* ------------------------------------------------- descriptor extraction, applied

\* the nodes handed to the extraction: every attribute read either answers or
\* throws; getText() answers a string, getAttribute() a string or null
InfoNodes ==
    [text : {<<"a", " ">>, THROWS},
     className : {<<"android.widget.", "Button">>, THROWS},
     tagName : {<<"a">>, THROWS},
     resourceId : {<<"btn">>, NULL, THROWS},
     contentDesc : {<<"a">>, NULL, THROWS},
     clickable : {<<"true">>, <<"false">>, THROWS},
     enabled : {<<"true">>, <<"false">>, THROWS},
     bounds : {Rect, THROWS}]

InfoInit ==
    /\ infoNode \in InfoNodes
    /\ infoOut = Unset
    /\ itemOut = Unset

\* const info = await this.getElementInfo(element)
CallGetElementInfo ==
    /\ infoOut = Unset
    /\ infoOut' = getElementInfo(infoNode)
    /\ UNCHANGED <<infoNode, itemOut>>
    /\ UNCHANGED <<coreVars, tailVars, passVars, pageVars, runVars>>

\* the five reads and the push of the clickable loop, on the first node
CallClickableItem ==
    /\ itemOut = Unset
    /\ itemOut' = ClickableItem(infoNode, 0)
    /\ UNCHANGED <<infoNode, infoOut>>
    /\ UNCHANGED <<coreVars, tailVars, passVars, pageVars, runVars>>

NextInfo == CallGetElementInfo \/ CallClickableItem

\* ------------------------------------------------- ProductionDataPage.clickSection

Uppers ==
    <<"A", "B", "C", "D", "E", "F", "G", "H", "I", "J", "K", "L", "M",
      "N", "O", "P", "Q", "R", "S", "T", "U", "V", "W", "X", "Y", "Z">>

Lowers ==
    <<"a", "b", "c", "d", "e", "f", "g", "h", "i", "j", "k", "l", "m",
      "n", "o", "p", "q", "r", "s", "t", "u", "v", "w", "x", "y", "z">>

ToLowerChar(c) ==
    IF \E n \in 1..Len(Uppers) : Uppers[n] = c
        THEN Lowers[CHOOSE n \in 1..Len(Uppers) : Uppers[n] = c]
        ELSE c

ToUpperChar(c) ==
    IF \E n \in 1..Len(Lowers) : Lowers[n] = c
        THEN Uppers[CHOOSE n \in 1..Len(Lowers) : Lowers[n] = c]
        ELSE c

\* String.prototype.toLowerCase, on a string as the sequence of its characters
toLowerCase(str) == [n \in 1..Len(str) |-> ToLowerChar(str[n])]

toUpperCase(str) == [n \in 1..Len(str) |-> ToUpperChar(str[n])]

Capitalised(str) == IF str = <<>> THEN str ELSE <<ToUpperChar(str[1])>> \o Tail(str)

\* the four names the tests and the runners pass
NameSpecimen == <<"s", "p", "e", "c", "i", "m", "e", "n">>

NameDome == <<"d", "o", "m", "e">>

NameHarvesting == <<"h", "a", "r", "v", "e", "s", "t", "i", "n", "g">>

NameMediaMoisture == <<"m", "e", "d", "i", "a", "M", "o", "i", "s", "t", "u", "r", "e">>

PassedNames == {NameSpecimen, NameDome, NameHarvesting, NameMediaMoisture}

\* the getters specimenSection, domeSection, harvestingSection and
\* mediaMoistureSection: the element behind a content-desc locator (the icons
\* in front of the Specimen label left out)
SectionElement(label) == ElementOf(XPathLocator("content-desc", <<label>>))

\* the keys of the sectionMap literal, as written, and their values
sectionMap ==
    [key \in PassedNames |->
        CASE key = NameSpecimen -> SectionElement("Specimen")
          [] key = NameDome -> SectionElement("Dome")
          [] key = NameHarvesting -> SectionElement("Harvesting")
          [] key = NameMediaMoisture -> SectionElement("Media Moisture")]

\* what an object literal inherits under an all-lower-case key
InheritedKeys == {<<"c", "o", "n", "s", "t", "r", "u", "c", "t", "o", "r">>}

\* a value that is no element: it has no waitForDisplayed
NotAnElement == [inherited |-> TRUE]

\* sectionMap[sectionName.toLowerCase()]; Null is undefined
LookUp(name) ==
    IF toLowerCase(name) \in DOMAIN sectionMap THEN sectionMap[toLowerCase(name)]
    ELSE IF toLowerCase(name) \in InheritedKeys THEN NotAnElement
    ELSE Null

PageCall(call, on, result) == [call |-> call, on |-> on, result |-> result]

\* lines 291-301: the look-up; `if (!section) throw new Error('Unknown section')`
PageLookUp ==
    /\ pagePc = "lookup"
    /\ section' = LookUp(sectionName)
    /\ IF section' = Null
          THEN pagePc' = "done" /\ pageOutcome' = "Unknown section"
          ELSE pagePc' = "wait" /\ UNCHANGED pageOutcome
    /\ UNCHANGED <<sectionName, pageCalls>>
    /\ UNCHANGED <<coreVars, tailVars, infoVars, passVars, runVars>>

\* await section.waitForDisplayed({ timeout: 10000 })
PageWait ==
    /\ pagePc = "wait"
    /\ IF section = NotAnElement
          THEN /\ pagePc' = "done"
               /\ pageOutcome' = "TypeError"
               /\ UNCHANGED pageCalls
          ELSE \E ok \in BOOLEAN :
               /\ pageCalls' = Append(pageCalls, PageCall("waitForDisplayed", section,
                                                          IF ok THEN "ok" ELSE "throws"))
               /\ IF ok THEN pagePc' = "click" /\ UNCHANGED pageOutcome
                        ELSE pagePc' = "done" /\ pageOutcome' = "rejected"
    /\ UNCHANGED <<sectionName, section>>
    /\ UNCHANGED <<coreVars, tailVars, infoVars, passVars, runVars>>

\* await section.click()
PageClick ==
    /\ pagePc = "click"
    /\ \E ok \in BOOLEAN :
        /\ pageCalls' = Append(pageCalls, PageCall("click", section,
                                                   IF ok THEN "ok" ELSE "throws"))
        /\ IF ok THEN pagePc' = "pause" /\ UNCHANGED pageOutcome
                 ELSE pagePc' = "done" /\ pageOutcome' = "rejected"
    /\ UNCHANGED <<sectionName, section>>
    /\ UNCHANGED <<coreVars, tailVars, infoVars, passVars, runVars>>

\* await browser.pause(2000)
PagePause ==
    /\ pagePc = "pause"
    /\ \E ok \in BOOLEAN :
        /\ pageCalls' = Append(pageCalls, PageCall("pause", Null,
                                                   IF ok THEN "ok" ELSE "throws"))
        /\ IF ok THEN pagePc' = "shot" /\ UNCHANGED pageOutcome
                 ELSE pagePc' = "done" /\ pageOutcome' = "rejected"
    /\ UNCHANGED <<sectionName, section>>
    /\ UNCHANGED <<coreVars, tailVars, infoVars, passVars, runVars>>

\* await this.takeScreenshot(...): it catches the throw of saveScreenshot
PageShot ==
    /\ pagePc = "shot"
    /\ \E ok \in BOOLEAN :
        pageCalls' = Append(pageCalls, PageCall("saveScreenshot", Null,
                                                IF ok THEN "ok" ELSE "throws"))
    /\ pagePc' = "done"
    /\ pageOutcome' = "resolved"
    /\ UNCHANGED <<sectionName, section>>
    /\ UNCHANGED <<coreVars, tailVars, infoVars, passVars, runVars>>

\* the names clickSection is called with: the four passed ones, their
\* capitalised and upper-case forms, the all-lower-case form, and names of no
\* section
SectionNames ==
    PassedNames
        \cup {Capitalised(n) : n \in PassedNames}
        \cup {toUpperCase(n) : n \in PassedNames}
        \cup {toLowerCase(n) : n \in PassedNames}
        \cup {<<ToLowerChar(n[1])>> \o Tail(toUpperCase(n)) : n \in PassedNames}
        \cup {<<"c", "o", "n", "s", "t", "r", "u", "c", "t", "o", "r">>, <<"w", "e", "a", "t", "h", "e", "r">>, <<>>}

PageInit ==
    /\ sectionName \in SectionNames
    /\ pagePc = "lookup"
    /\ section = Null
    /\ pageCalls = <<>>
    /\ pageOutcome = "pending"

NextPage ==
    \/ PageLookUp
    \/ PageWait
    \/ PageClick
    \/ PagePause
    \/ PageShot

\* ------------------------------------------------- runTest of the single-test runners

Runners == {"run-single-test", "html-report"}

\* one operation of a test step:
\*   "call"         a remote call awaited with no catch around it
\*   "verify"       isDisplayed() followed by `throw` when it is false
\*   "soft"         an operation that catches its own failures
\*   "back"         ProductionDataPage.navigateBack()
\*   "clickSection" ProductionDataPage.clickSection(name)
Op(kind, arg) == <<kind, arg>>

\* the operations around the click of a section
SectionOps(name, shotName, withBack) ==
    << Op("soft", <<"takeScreenshot before ", shotName>>),
       Op("clickSection", name),
       Op("call", "pause"),
       Op("soft", <<"takeScreenshot after ", shotName>>) >>
    \o (IF withBack THEN << Op("back", "navigateBack") >> ELSE <<>>)

TestStep(name, ops) == [name |-> name, ops |-> ops]

\* run-single-test.js, runTest: the five steps of the one try block
PlainSteps ==
    << TestStep("Step 1",
                << Op("call", "waitForPageLoad"), Op("call", "mainTitle.isDisplayed") >>),
       TestStep("Step 2", SectionOps(NameSpecimen, "specimen", TRUE)),
       TestStep("Step 3", SectionOps(NameDome, "dome", FALSE)),
       TestStep("Step 4", SectionOps(NameHarvesting, "harvesting", TRUE)),
       TestStep("Step 5", SectionOps(NameMediaMoisture, "media_moisture", TRUE)) >>

\* the runner with the HTML report: the six callbacks handed to runTestStep
ReportSteps ==
    << TestStep("App Launch and Main Screen Verification",
                << Op("call", "waitForPageLoad"), Op("verify", "mainTitle.isDisplayed") >>),
       TestStep("Specimen Button Navigation Test", SectionOps(NameSpecimen, "specimen", TRUE)),
       TestStep("Dome Button Expansion Test",
                << Op("call", "pause"), Op("call", "scroll") >>
                \o SectionOps(NameDome, "dome", FALSE)
                \o << Op("soft", "expanded items visible") >>),
       TestStep("Harvesting Button Navigation Test",
                << Op("call", "ensureDomeExpanded") >>
                \o SectionOps(NameHarvesting, "harvesting", TRUE)),
       TestStep("Media Moisture Button Navigation Test",
                << Op("call", "ensureDomeExpanded") >>
                \o SectionOps(NameMediaMoisture, "media_moisture", TRUE)),
       TestStep("Test Summary and Verification",
                << Op("soft", "takeScreenshot"), Op("verify", "mainTitle.isDisplayed") >>) >>

StepsOf(r) == IF r = "run-single-test" THEN PlainSteps ELSE ReportSteps

Steps == StepsOf(runner)

\* the operation at hand
CurrentOp == Steps[runStep].ops[runOp]

AtOp(kind) ==
    /\ runPc = "step"
    /\ runOp <= Len(Steps[runStep].ops)
    /\ CurrentOp[1] = kind

\* summary.passed++ or summary.failed++, and summary.total++
Counted(status) ==
    [summary EXCEPT ![status] = summary[status] + 1, !.total = summary.total + 1]

\* the step's callback throws: runTestStep records the failure and throws it
\* again; in run-single-test.js the throw leaves the try block
StepFails ==
    /\ runPc' = "catch"
    /\ testResults' = IF runner = "html-report"
                         THEN Append(testResults, <<Steps[runStep].name, "failed">>)
                         ELSE testResults
    /\ summary' = IF runner = "html-report" THEN Counted("failed") ELSE summary
    /\ UNCHANGED <<runStep, runOp, runLog>>

\* driver = await remote(wdOpts)
RunConnect ==
    /\ runPc = "remote"
    /\ \E ok \in BOOLEAN :
        IF ok THEN runPc' = "step" /\ UNCHANGED runFaults
              ELSE runPc' = "catch" /\ runFaults' = Append(runFaults, "remote")
    /\ UNCHANGED <<runner, runStep, runOp, runLog, testResults, summary>>
    /\ UNCHANGED <<coreVars, tailVars, infoVars, passVars, pageVars>>

\* an awaited remote call of the step, or a verification that throws
RunCall ==
    /\ AtOp("call") \/ AtOp("verify")
    /\ \E ok \in BOOLEAN :
        IF ok THEN /\ runOp' = runOp + 1
                   /\ UNCHANGED <<runPc, runStep, runLog, runFaults, testResults, summary>>
              ELSE /\ runFaults' = Append(runFaults, CurrentOp[2])
                   /\ StepFails
    /\ UNCHANGED runner
    /\ UNCHANGED <<coreVars, tailVars, infoVars, passVars, pageVars>>

\* takeScreenshot and the guarded blocks: their failures stay inside
RunSoft ==
    /\ AtOp("soft")
    /\ runOp' = runOp + 1
    /\ UNCHANGED <<runner, runPc, runStep, runLog, runFaults, testResults, summary>>
    /\ UNCHANGED <<coreVars, tailVars, infoVars, passVars, pageVars>>

\* navigateBack(): browser.back() inside its own try block
RunBack ==
    /\ AtOp("back")
    /\ \E ok \in BOOLEAN :
        pageCalls' = Append(pageCalls, PageCall("back", Null, IF ok THEN "ok" ELSE "throws"))
    /\ runOp' = runOp + 1
    /\ UNCHANGED <<runner, runPc, runStep, runLog, runFaults, testResults, summary>>
    /\ UNCHANGED <<sectionName, pagePc, section, pageOutcome>>
    /\ UNCHANGED <<coreVars, tailVars, infoVars, passVars>>

\* await ProductionDataPage.clickSection(name): the call is entered
RunClickSection ==
    /\ AtOp("clickSection")
    /\ sectionName' = CurrentOp[2]
    /\ pagePc' = "lookup"
    /\ section' = Null
    /\ pageOutcome' = "pending"
    /\ runPc' = "page"
    /\ UNCHANGED <<runner, runStep, runOp, runLog, runFaults, testResults, summary, pageCalls>>
    /\ UNCHANGED <<coreVars, tailVars, infoVars, passVars>>

\* clickSection has settled: resolved, the step goes on; thrown, the step fails
RunSectionSettled ==
    /\ runPc = "page"
    /\ pagePc = "done"
    /\ pagePc' = "idle"
    /\ IF pageOutcome = "resolved"
          THEN /\ runPc' = "step"
               /\ runOp' = runOp + 1
               /\ UNCHANGED <<runStep, runLog, testResults, summary>>
          ELSE StepFails
    /\ UNCHANGED <<runner, runFaults, sectionName, section, pageCalls, pageOutcome>>
    /\ UNCHANGED <<coreVars, tailVars, infoVars, passVars>>

\* the step's callback returned: runTestStep records the pass; the next step
\* starts, and after the last one the try block is left
RunStepEnd ==
    /\ runPc = "step"
    /\ runOp > Len(Steps[runStep].ops)
    /\ runLog' = Append(runLog, runStep)
    /\ testResults' = IF runner = "html-report"
                         THEN Append(testResults, <<Steps[runStep].name, "passed">>)
                         ELSE testResults
    /\ summary' = IF runner = "html-report" THEN Counted("passed") ELSE summary
    /\ IF runStep < Len(Steps)
          THEN runStep' = runStep + 1 /\ runOp' = 1 /\ UNCHANGED runPc
          ELSE runPc' = "finally" /\ UNCHANGED <<runStep, runOp>>
    /\ UNCHANGED <<runner, runFaults>>
    /\ UNCHANGED <<coreVars, tailVars, infoVars, passVars, pageVars>>

\* the catch block of runTest: the runner with the report records the error
RunCatch ==
    /\ runPc = "catch"
    /\ runPc' = "finally"
    /\ testResults' = IF runner = "html-report"
                         THEN Append(testResults, <<"Test Execution Error", "failed">>)
                         ELSE testResults
    /\ summary' = IF runner = "html-report" THEN Counted("failed") ELSE summary
    /\ UNCHANGED <<runner, runStep, runOp, runLog, runFaults>>
    /\ UNCHANGED <<coreVars, tailVars, infoVars, passVars, pageVars>>

\* the finally block: the report, the session's release, the summary
RunFinally ==
    /\ runPc = "finally"
    /\ runPc' = "done"
    /\ UNCHANGED <<runner, runStep, runOp, runLog, runFaults, testResults, summary>>
    /\ UNCHANGED <<coreVars, tailVars, infoVars, passVars, pageVars>>

RunInit ==
    /\ runner \in Runners
    /\ runPc = "remote"
    /\ runStep = 1
    /\ runOp = 1
    /\ runLog = <<>>
    /\ runFaults = <<>>
    /\ testResults = <<>>
    /\ summary = [total |-> 0, passed |-> 0, failed |-> 0]

NextRun ==
    \/ RunConnect
    \/ RunCall
    \/ RunSoft
    \/ RunBack
    \/ RunClickSection
    \/ RunSectionSettled
    \/ RunStepEnd
    \/ RunCatch
    \/ RunFinally
    \/ PageLookUp
    \/ PageWait
    \/ PageClick
    \/ PagePause
    \/ PageShot

\* ------------------------------------------------- DiscoveryWorkflow.runCompleteWorkflow

\* the value a runner's promise resolved with: `return results` is the last
\* statement of its try block, and the catch block returns nothing
Resolved == IF thrown = "none" THEN "results" ELSE "undefined"

\* a call of runElementFinder or runDeepInspection is entered
Enters(p) ==
    /\ prog' = p
    /\ sesPc' = "mkdirs"
    /\ driver' = Null
    /\ step' = 1
    /\ thrown' = "none"
    /\ settled' = "pending"
    /\ UNCHANGED <<sessionsCreated, deleteCalls>>

\* Step 1, runBasicInspection: reading an existing app_inspection.json can
\* throw; then Step 2 calls runElementFinder
WorkflowBasicInspection ==
    /\ wfPc = "runBasicInspection"
    /\ \E ok \in BOOLEAN :
        IF ok THEN wfPc' = "runElementFinder" /\ Enters("runElementFinder")
              ELSE wfPc' = "catch" /\ UNCHANGED sesVars
    /\ UNCHANGED <<wfResults, wfReport>>
    /\ UNCHANGED <<selVars, expVars, finVars, infoVars, passVars, pageVars, runVars, prodVars, trVars>>

\* this.results.elementDiscovery = await runElementFinder(); then Step 3 calls
\* runDeepInspection
WorkflowElementFinderSettled ==
    /\ wfPc = "runElementFinder"
    /\ sesPc = "settled"
    /\ IF settled = "resolved"
          THEN /\ wfResults' = [wfResults EXCEPT !.elementDiscovery = Resolved]
               /\ wfPc' = "runDeepInspection"
               /\ Enters("runDeepInspection")
          ELSE /\ wfPc' = "catch"
               /\ UNCHANGED <<wfResults, sesVars>>
    /\ UNCHANGED wfReport
    /\ UNCHANGED <<selVars, expVars, finVars, infoVars, passVars, pageVars, runVars, prodVars, trVars>>

\* this.results.deepInspection = await runDeepInspection()
WorkflowDeepInspectionSettled ==
    /\ wfPc = "runDeepInspection"
    /\ sesPc = "settled"
    /\ IF settled = "resolved"
          THEN /\ wfResults' = [wfResults EXCEPT !.deepInspection = Resolved]
               /\ wfPc' = "generateTests"
          ELSE /\ wfPc' = "catch"
               /\ UNCHANGED wfResults
    /\ UNCHANGED wfReport
    /\ UNCHANGED <<selVars, expVars, finVars, sesVars, infoVars, passVars, pageVars, runVars, prodVars, trVars>>

\* Step 4, generateTests: it catches the generator's failure
WorkflowGenerateTests ==
    /\ wfPc = "generateTests"
    /\ wfPc' = "createSummaryReport"
    /\ UNCHANGED <<wfResults, wfReport>>
    /\ UNCHANGED <<selVars, expVars, finVars, sesVars, infoVars, passVars, pageVars, runVars, prodVars, trVars>>

\* Step 5, createSummaryReport, whose file writes can throw; then
\* 'Complete workflow finished successfully!' and the final summary
WorkflowSummaryReport ==
    /\ wfPc = "createSummaryReport"
    /\ \E ok \in BOOLEAN :
        IF ok THEN wfPc' = "done" /\ wfReport' = "success"
              ELSE wfPc' = "catch" /\ UNCHANGED wfReport
    /\ UNCHANGED wfResults
    /\ UNCHANGED <<selVars, expVars, finVars, sesVars, infoVars, passVars, pageVars, runVars, prodVars, trVars>>

\* the catch block: 'Workflow failed'
WorkflowCatch ==
    /\ wfPc = "catch"
    /\ wfPc' = "done"
    /\ wfReport' = "failed"
    /\ UNCHANGED wfResults
    /\ UNCHANGED <<selVars, expVars, finVars, sesVars, infoVars, passVars, pageVars, runVars, prodVars, trVars>>

WorkflowInit ==
    /\ wfPc = "runBasicInspection"
    /\ wfResults = [elementDiscovery |-> "null", deepInspection |-> "null"]
    /\ wfReport = "none"

NextWorkflow ==
    \/ WorkflowBasicInspection
    \/ WorkflowElementFinderSettled
    \/ WorkflowDeepInspectionSettled
    \/ WorkflowGenerateTests
    \/ WorkflowSummaryReport
    \/ WorkflowCatch
    \/ SessionMkdirs
    \/ SessionRemote
    \/ SessionStep
    \/ SessionCatch
    \/ SessionFinally

\* ------------------------------------------------- ProductionTestRunner

\* this.testSuites of the constructor
TestSuites ==
    << "Production Data Main Tests", "Element Interaction Tests",
       "Data Collection Flow Tests", "Basic App Tests" >>

\* exit codes of the child: success, a failing run, a process that never started
ExitCodes == {0, 1, -2}

\* the child of suite k has been spawned and the process of the runner lives
Spawned(k) ==
    /\ prodPc \in {"await", "spawn", "report"}
    /\ k \in 1..Len(TestSuites)
    /\ k < suiteAt \/ (k = suiteAt /\ prodPc = "await")

\* checkAppiumServer and the APK test: process.exit(1) on either failure,
\* else summary.totalSuites is set
ProdChecks ==
    /\ prodPc = "checks"
    /\ \E ok \in BOOLEAN :
        IF ok THEN /\ prodPc' = "spawn"
                   /\ suiteSummary' = [suiteSummary EXCEPT !.totalSuites = Len(TestSuites)]
              ELSE /\ prodPc' = "exited"
                   /\ UNCHANGED suiteSummary
    /\ UNCHANGED <<suiteAt, emitted, suiteStatus, suiteResults>>
    /\ UNCHANGED <<coreVars, infoVars, passVars, pageVars, runVars, wfVars, trVars>>

\* runTestSuite(suite): the result object is created and the child spawned
ProdSpawn ==
    /\ prodPc = "spawn"
    /\ suiteAt <= Len(TestSuites)
    /\ suiteStatus' = [suiteStatus EXCEPT ![suiteAt] = "running"]
    /\ prodPc' = "await"
    /\ UNCHANGED <<suiteAt, emitted, suiteResults, suiteSummary>>
    /\ UNCHANGED <<coreVars, infoVars, passVars, pageVars, runVars, wfVars, trVars>>

\* testProcess.on('close') of some child: the status by the exit code, one
\* counter, the push
ProdClose ==
    /\ \E k \in 1..Len(TestSuites) :
        /\ Spawned(k)
        /\ "close" \notin emitted[k]
        /\ emitted' = [emitted EXCEPT ![k] = @ \cup {"close"}]
        /\ \E code \in ExitCodes :
            /\ suiteStatus' = [suiteStatus EXCEPT ![k] = IF code = 0 THEN "passed" ELSE "failed"]
            /\ suiteSummary' =
                 IF code = 0
                     THEN [suiteSummary EXCEPT !.passedSuites = @ + 1]
                     ELSE [suiteSummary EXCEPT !.failedSuites = @ + 1]
        /\ suiteResults' = Append(suiteResults, k)
    /\ UNCHANGED <<prodPc, suiteAt>>
    /\ UNCHANGED <<coreVars, infoVars, passVars, pageVars, runVars, wfVars, trVars>>

\* testProcess.on('error') of some child: status 'error', failedSuites++, the
\* push. The event comes before the child's 'close', if that follows at all.
ProdError ==
    /\ \E k \in 1..Len(TestSuites) :
        /\ Spawned(k)
        /\ emitted[k] = {}
        /\ emitted' = [emitted EXCEPT ![k] = {"error"}]
        /\ suiteStatus' = [suiteStatus EXCEPT ![k] = "error"]
        /\ suiteSummary' = [suiteSummary EXCEPT !.failedSuites = @ + 1]
        /\ suiteResults' = Append(suiteResults, k)
    /\ UNCHANGED <<prodPc, suiteAt>>
    /\ UNCHANGED <<coreVars, infoVars, passVars, pageVars, runVars, wfVars, trVars>>

\* the promise of runTestSuite has resolved: the next suite after the delay,
\* or generateFinalReport after the last one
ProdSuiteSettled ==
    /\ prodPc = "await"
    /\ emitted[suiteAt] # {}
    /\ suiteAt' = suiteAt + 1
    /\ prodPc' = IF suiteAt < Len(TestSuites) THEN "spawn" ELSE "report"
    /\ UNCHANGED <<emitted, suiteStatus, suiteResults, suiteSummary>>
    /\ UNCHANGED <<coreVars, infoVars, passVars, pageVars, runVars, wfVars, trVars>>

\* generateFinalReport: the report is written and the process exits
ProdReport ==
    /\ prodPc = "report"
    /\ prodPc' = "done"
    /\ UNCHANGED <<suiteAt, emitted, suiteStatus, suiteResults, suiteSummary>>
    /\ UNCHANGED <<coreVars, infoVars, passVars, pageVars, runVars, wfVars, trVars>>

ProdInit ==
    /\ prodPc = "checks"
    /\ suiteAt = 1
    /\ emitted = [k \in 1..Len(TestSuites) |-> {}]
    /\ suiteStatus = [k \in 1..Len(TestSuites) |-> "none"]
    /\ suiteResults = <<>>
    /\ suiteSummary = [totalSuites |-> 0, passedSuites |-> 0, failedSuites |-> 0]

NextProd ==
    \/ ProdChecks
    \/ ProdSpawn
    \/ ProdClose
    \/ ProdError
    \/ ProdSuiteSettled
    \/ ProdReport

\* ------------------------------------------------- the test runners

TestRunners == {"runTests", "SimpleTestRunner", "FixedTestRunner"}

\* the tests of the simple runner's runTests
SimpleTests ==
    << "App Launch", "UI Elements Detection", "Basic Interactions", "App Navigation" >>

\* how many tests the runner runs: the array of runTests, the runTest calls of
\* the two classes' runAllTests
TestsOf(p) ==
    IF p = "runTests" THEN Len(SimpleTests)
    ELSE IF p = "FixedTestRunner" THEN 10
    ELSE 9

\* testResults.summary after one more test of this status
Tallied(status) ==
    [trCounts EXCEPT ![status] = trCounts[status] + 1, !.total = trCounts.total + 1]

\* the next test, or the end of the try block
TrNextTest ==
    /\ trAt' = trAt + 1
    /\ trPc' = IF trAt < TestsOf(trProg) THEN "test" ELSE "finally"

\* a throw outside every try block: the promise rejects and the catch of the
\* main module guard calls process.exit(1)
TrRejects ==
    /\ trPc' = "done"
    /\ trOut' = "rejected"
    /\ trExit' = 1

\* ensureDirectories() of runTests, before its try block
TrDirectories ==
    /\ trPc = "mkdirs"
    /\ \E ok \in BOOLEAN :
        IF ok THEN trPc' = "connect" /\ UNCHANGED <<trOut, trExit>>
              ELSE TrRejects
    /\ UNCHANGED <<trProg, trAt, trDriver, trTests, trCounts, trRuns>>
    /\ UNCHANGED <<coreVars, infoVars, passVars, pageVars, runVars, wfVars, prodVars>>

\* driver = await remote(...) / await this.connect(), first in the try block
TrConnect ==
    /\ trPc = "connect"
    /\ \E ok \in BOOLEAN :
        IF ok THEN trDriver' = TRUE /\ trPc' = "test"
              ELSE trPc' = "catch" /\ UNCHANGED trDriver
    /\ UNCHANGED <<trProg, trAt, trTests, trCounts, trRuns, trOut, trExit>>
    /\ UNCHANGED <<coreVars, infoVars, passVars, pageVars, runVars, wfVars, prodVars>>

\* one test: the test functions of runTests catch their failures and return
\* `passed`; runTest of the classes catches the throw of the test function.
\* Either way one entry is pushed and the counters go up.
TrTest ==
    /\ trPc = "test"
    /\ \E passed \in BOOLEAN :
        LET status == IF passed THEN "passed" ELSE "failed"
        IN  /\ trTests' = Append(trTests, <<trAt, status>>)
            /\ trCounts' = Tallied(status)
    /\ IF trProg = "runTests" THEN TrNextTest ELSE trPc' = "shot" /\ UNCHANGED trAt
    /\ UNCHANGED <<trProg, trDriver, trRuns, trOut, trExit>>
    /\ UNCHANGED <<coreVars, infoVars, passVars, pageVars, runVars, wfVars, prodVars>>

\* runTest of the classes: await this.takeScreenshot(...) after the push, with
\* no try block around it nor inside it
TrScreenshot ==
    /\ trPc = "shot"
    /\ \E ok \in BOOLEAN :
        IF ok THEN /\ trRuns' = Append(trRuns, <<trAt, "resolved">>)
                   /\ TrNextTest
              ELSE /\ trRuns' = Append(trRuns, <<trAt, "rejected">>)
                   /\ trPc' = "catch"
                   /\ UNCHANGED trAt
    /\ UNCHANGED <<trProg, trDriver, trTests, trCounts, trOut, trExit>>
    /\ UNCHANGED <<coreVars, infoVars, passVars, pageVars, runVars, wfVars, prodVars>>

\* the catch block: the error is logged
TrCatch ==
    /\ trPc = "catch"
    /\ trPc' = "finally"
    /\ UNCHANGED <<trProg, trAt, trDriver, trTests, trCounts, trRuns, trOut, trExit>>
    /\ UNCHANGED <<coreVars, infoVars, passVars, pageVars, runVars, wfVars, prodVars>>

\* the finally block: deleteSession() when there is a driver; its throw rejects
TrFinally ==
    /\ trPc = "finally"
    /\ \E ok \in BOOLEAN :
        IF ok \/ ~trDriver THEN trPc' = "report" /\ UNCHANGED <<trOut, trExit>>
                           ELSE TrRejects
    /\ UNCHANGED <<trProg, trAt, trDriver, trTests, trCounts, trRuns>>
    /\ UNCHANGED <<coreVars, infoVars, passVars, pageVars, runVars, wfVars, prodVars>>

\* after the try statement: the results file is written; runTests returns
\* summary.failed === 0 and the main module guard exits with 0 or 1, the
\* classes' runAllTests returns nothing
TrReport ==
    /\ trPc = "report"
    /\ \E ok \in BOOLEAN :
        IF ~ok THEN TrRejects
        ELSE /\ trPc' = "done"
             /\ trOut' = IF trProg # "runTests" THEN "resolved"
                         ELSE IF trCounts.failed = 0 THEN "true" ELSE "false"
             /\ trExit' = IF trProg # "runTests" THEN trExit
                          ELSE IF trCounts.failed = 0 THEN 0 ELSE 1
    /\ UNCHANGED <<trProg, trAt, trDriver, trTests, trCounts, trRuns>>
    /\ UNCHANGED <<coreVars, infoVars, passVars, pageVars, runVars, wfVars, prodVars>>

TrInit ==
    /\ trProg \in TestRunners
    /\ trPc = IF trProg = "runTests" THEN "mkdirs" ELSE "connect"
    /\ trAt = 1
    /\ trDriver = FALSE
    /\ trTests = <<>>
    /\ trCounts = [total |-> 0, passed |-> 0, failed |-> 0]
    /\ trRuns = <<>>
    /\ trOut = "pending"
    /\ trExit = -1

NextTr ==
    \/ TrDirectories
    \/ TrConnect
    \/ TrTest
    \/ TrScreenshot
    \/ TrCatch
    \/ TrFinally
    \/ TrReport

\* ------------------------------------------------- the parts at rest

InfoIdle ==
    /\ infoNode = Null
    /\ infoOut = Unset
    /\ itemOut = Unset

PassIdle ==
    /\ passOf = "none"
    /\ passScreen = <<>>
    /\ passFailAt = 0
    /\ passPc = "idle"
    /\ qPos = 1
    /\ nodePos = 1
    /\ found = <<>>
    /\ passLists = <<>>
    /\ passLog = <<>>
    /\ passResult = Unset

PageIdle ==
    /\ sectionName = <<>>
    /\ pagePc = "idle"
    /\ section = Null
    /\ pageCalls = <<>>
    /\ pageOutcome = "pending"

RunIdle ==
    /\ runner = "none"
    /\ runPc = "idle"
    /\ runStep = 1
    /\ runOp = 1
    /\ runLog = <<>>
    /\ runFaults = <<>>
    /\ testResults = <<>>
    /\ summary = [total |-> 0, passed |-> 0, failed |-> 0]

WorkflowIdle ==
    /\ wfPc = "idle"
    /\ wfResults = [elementDiscovery |-> "null", deepInspection |-> "null"]
    /\ wfReport = "none"

ProdIdle ==
    /\ prodPc = "idle"
    /\ suiteAt = 1
    /\ emitted = [k \in 1..Len(TestSuites) |-> {}]
    /\ suiteStatus = [k \in 1..Len(TestSuites) |-> "none"]
    /\ suiteResults = <<>>
    /\ suiteSummary = [totalSuites |-> 0, passedSuites |-> 0, failedSuites |-> 0]

TrIdle ==
    /\ trProg = "none"
    /\ trPc = "idle"
    /\ trAt = 1
    /\ trDriver = FALSE
    /\ trTests = <<>>
    /\ trCounts = [total |-> 0, passed |-> 0, failed |-> 0]
    /\ trRuns = <<>>
    /\ trOut = "pending"
    /\ trExit = -1

TailIdle == WorkflowIdle /\ ProdIdle /\ TrIdle

RestIdle == InfoIdle /\ PassIdle /\ PageIdle /\ RunIdle /\ TailIdle

CoreIdle == SelIdle /\ ExploreIdle /\ FinderIdle /\ SessionIdle

\* ------------------------------------------------- the specifications

\* each specification runs one part of the repository, the others at rest

InitSession == SessionInit /\ SelIdle /\ ExploreIdle /\ FinderIdle /\ RestIdle

SpecSession == InitSession /\ [][NextSession]_vars

InitExplore == ExploreInit /\ SelIdle /\ FinderIdle /\ SessionIdle /\ RestIdle

SpecExplore == InitExplore /\ [][NextExplore]_vars

InitTraced == TracedInit /\ SelIdle /\ FinderIdle /\ SessionIdle /\ RestIdle

SpecTraced == InitTraced /\ [][NextExplore]_vars

InitSelectors == SelInit /\ ExploreIdle /\ FinderIdle /\ SessionIdle /\ RestIdle

SpecSelectors == InitSelectors /\ [][NextSelectors]_vars

InitFinder == FinderInit /\ SelIdle /\ ExploreIdle /\ SessionIdle /\ RestIdle

SpecFinder == InitFinder /\ [][NextFinder]_vars

InitInfo == InfoInit /\ CoreIdle /\ PassIdle /\ PageIdle /\ RunIdle /\ TailIdle

SpecInfo == InitInfo /\ [][NextInfo]_vars

InitPass == PassInit /\ CoreIdle /\ InfoIdle /\ PageIdle /\ RunIdle /\ TailIdle

SpecPass == InitPass /\ [][NextPass]_vars

InitPage == PageInit /\ CoreIdle /\ InfoIdle /\ PassIdle /\ RunIdle /\ TailIdle

SpecPage == InitPage /\ [][NextPage]_vars

InitRun == RunInit /\ CoreIdle /\ InfoIdle /\ PassIdle /\ PageIdle /\ TailIdle

SpecRun == InitRun /\ [][NextRun]_vars

InitWorkflow ==
    WorkflowInit /\ CoreIdle /\ InfoIdle /\ PassIdle /\ PageIdle /\ RunIdle /\ ProdIdle /\ TrIdle

InitProd ==
    ProdInit /\ CoreIdle /\ InfoIdle /\ PassIdle /\ PageIdle /\ RunIdle /\ WorkflowIdle /\ TrIdle

InitTr ==
    TrInit /\ CoreIdle /\ InfoIdle /\ PassIdle /\ PageIdle /\ RunIdle /\ WorkflowIdle /\ ProdIdle

SpecTr == InitTr /\ [][NextTr]_vars

SpecProd == InitProd /\ [][NextProd]_vars

SpecWorkflow == InitWorkflow /\ [][NextWorkflow]_vars

\* ------------------------------------------------- reading a locator back

IsXPath(l) == l[1] = "//"

IsUiSelector(l) == l[1] = "android=new UiSelector()."

\* the attribute a locator matches on
LocatorAttr(l) == IF IsXPath(l) THEN l[3] ELSE l[2]

\* 1 = identifier, 2 = text, 3 = accessibility label
LocatorTier(l) ==
    IF LocatorAttr(l) \in {"resource-id", "resourceId"} THEN 1
    ELSE IF LocatorAttr(l) = "text" THEN 2
    ELSE 3

\* the characters between the locator's quotes
LocatorValue(l) == SubSeq(l, IF IsXPath(l) THEN 6 ELSE 5, Len(l) - 2)

AttrEmpty(s) == s = NULL \/ s = <<>>

AttrBlank(s) == AttrEmpty(s) \/ \A k \in 1..Len(s) : s[k] = " "

\* the tier's attribute is empty in the sense of the synthesizer's contract
TierEmpty(t, in) ==
    IF t = 1 THEN AttrEmpty(in.resourceId)
    ELSE IF t = 2 THEN AttrBlank(in.text)
    ELSE AttrBlank(in.contentDesc)

TiersInOrder(sels, in) ==
    /\ \A j, k \in 1..Len(sels) : j < k => LocatorTier(sels[j]) <= LocatorTier(sels[k])
    /\ ~AttrEmpty(in.resourceId) => (Len(sels) >= 1 /\ LocatorTier(sels[1]) = 1)

NoEmptyTier(sels, in) ==
    /\ \A t \in 1..3 :
        LET of == {j \in 1..Len(sels) : LocatorTier(sels[j]) = t}
        IN  IF TierEmpty(t, in)
                THEN of = {}
                ELSE /\ Cardinality(of) = 2
                     /\ \E j \in of : IsXPath(sels[j])
                     /\ \E j \in of : IsUiSelector(sels[j])
    /\ \A j \in 1..Len(sels) :
        /\ LocatorValue(sels[j]) # <<>>
        /\ \A k \in 1..(Len(sels[j]) - 1) : ~(sels[j][k] = Quote /\ sels[j][k + 1] = Quote)
    /\ (\A t \in 1..3 : TierEmpty(t, in)) => sels = <<>>

\* C8: generateSelector and generateSelectors emit the tiers in the order
\* identifier, text, label: every identifier-based locator precedes every
\* text-based one, which precedes every label-based one, and when the identifier
\* is non-empty the first entry is identifier-based.
C8_TierOrder ==
    /\ selDeep # NotYet => TiersInOrder(selDeep, selIn)
    /\ selFinder # NotYet => TiersInOrder(selFinder, selIn)

\* all three attributes present, both synthesizers applied: six locators each
C8_Witness ==
    /\ selDeep # NotYet /\ selFinder # NotYet
    /\ \A t \in 1..3 : ~TierEmpty(t, selIn)
    /\ Len(selDeep) = 6 /\ Len(selFinder) = 6
    /\ LocatorTier(selDeep[1]) = 1 /\ LocatorTier(selFinder[6]) = 3

\* C9: no locator is built from an empty attribute: a tier whose attribute is
\* empty (for text and label, empty after trimming) contributes nothing, every
\* other tier contributes exactly one XPath and one UiSelector locator, and a
\* descriptor with all three attributes empty gets no selector at all.
C9_NoEmptyLocator ==
    /\ selDeep # NotYet => NoEmptyTier(selDeep, selIn)
    /\ selFinder # NotYet => NoEmptyTier(selFinder, selIn)

\* a text of blanks only beside a present identifier: the text tier is left out
C9_Witness ==
    /\ selDeep # NotYet /\ selFinder # NotYet
    /\ selIn.text # <<>> /\ AttrBlank(selIn.text)
    /\ ~AttrEmpty(selIn.resourceId) /\ selIn.contentDesc = NULL
    /\ Len(selDeep) = 2 /\ Len(selFinder) = 2

\* ------------------------------------------------- the exploration's claims

Range(seq) == {seq[n] : n \in 1..Len(seq)}

\* the snapshot is one of the starting screen
IsStartSnapshot(shot) == shot # Null /\ shot.screenInfo.activity = <<"app", "Main">>

\* the descriptor has a text or a label that is not the empty string
Labelled(element) ==
    \/ (element.text # NULL /\ Len(element.text) > 0)
    \/ (element.contentDesc # NULL /\ Len(element.contentDesc) > 0)

\* the indexes of `elements` up to `limit` that carry a text or a label, in order
RECURSIVE LabelledUpTo(_, _, _)
LabelledUpTo(elements, n, limit) ==
    IF n > limit \/ n > Len(elements) THEN <<>>
    ELSE (IF Labelled(elements[n]) THEN <<n>> ELSE <<>>)
         \o LabelledUpTo(elements, n + 1, limit)

\* the first `count` entries of a sequence
FirstN(seq, count) == SubSeq(seq, 1, Min(Len(seq), count))

ExploreDone == pc = "done" /\ mainScreen # Null

\* C2: no click() and no back() is issued before the starting snapshot has been
\* captured and appended as the first entry of discoveredScreens; when the
\* starting snapshot cannot be captured, neither is issued at all.
C2_StartSnapshotFirst ==
    /\ (pc \in {"click", "snap", "back"} \/ clicked # <<>> \/ backs # <<>>) =>
          /\ Len(discoveredScreens) >= 1
          /\ IsStartSnapshot(discoveredScreens[1])
          /\ discoveredScreens[1] = mainScreen
    /\ (pc = "done" /\ mainScreen = Null) =>
          (clicked = <<>> /\ backs = <<>> /\ attempted = <<>> /\ discoveredScreens = <<>>)

\* a click issued, the starting snapshot in place before it
C2_Witness ==
    /\ pc = "snap"
    /\ clicked = <<1>>
    /\ Len(discoveredScreens) = 1
    /\ IsStartSnapshot(discoveredScreens[1])

\* C3: whatever the number of clickable descriptors of the starting screen, at
\* most 5 clicks are attempted and at most 5 snapshots follow the starting one.
C3_ClickBudget ==
    /\ Len(clicked) <= 5
    /\ Len(attempted) <= 5
    /\ Len(discoveredScreens) <= 6

\* a starting screen of more than five labelled descriptors, explored to the end
C3_Witness ==
    /\ ExploreDone
    /\ Len(mainScreen.elements.clickable) > 5
    /\ \A n \in 1..Len(mainScreen.elements.clickable) :
          Labelled(mainScreen.elements.clickable[n])
    /\ Len(clicked) = 5
    /\ Len(discoveredScreens) = 6

\* C4 as claimed: the descriptors attempted are the first min(5, k) of the k
\* starting-screen descriptors that have a text or a label; one with neither is
\* skipped without consuming the budget.
C4_Original ==
    ExploreDone =>
        attempted = FirstN(LabelledUpTo(mainScreen.elements.clickable, 1,
                                        Len(mainScreen.elements.clickable)), 5)

\* C4 amended: the descriptors attempted are, in discovery order, those among
\* the first min(5, n) of the n starting-screen clickable descriptors that have a
\* non-empty text or label; one with neither is skipped and consumes the budget.
C4_AttemptedAmongFirstFive ==
    /\ ExploreDone => attempted = LabelledUpTo(mainScreen.elements.clickable, 1, 5)
    /\ mainScreen # Null =>
          \E n \in 0..5 : attempted = LabelledUpTo(mainScreen.elements.clickable, 1, n)

\* six descriptors, a bare one among the first five: four are attempted and
\* the labelled sixth is not
C4_Witness ==
    /\ ExploreDone
    /\ Len(mainScreen.elements.clickable) = 6
    /\ ~Labelled(mainScreen.elements.clickable[2])
    /\ Labelled(mainScreen.elements.clickable[6])
    /\ attempted = <<1, 3, 4, 5>>

\* C5: the exploration never rejects, whatever remote calls fail: it can always
\* take its next step until its promise resolves, and discoveredScreens goes on
\* holding the starting snapshot and every snapshot captured so far.
C5_NeverRejects ==
    /\ outcome # "rejected"
    /\ pc = "done" <=> outcome = "resolved"
    /\ pc # "done" => ENABLED NextExplore
    /\ mainScreen # Null =>
          /\ Len(discoveredScreens) >= 1 + Len(captured)
          /\ discoveredScreens[1] = mainScreen

\* resolved after a click that threw, with the snapshot captured before it kept
C5_Witness ==
    /\ pc = "done" /\ outcome = "resolved"
    /\ captured = <<1>>
    /\ clicked = <<1, 2>>
    /\ backs = <<1>>
    /\ Len(discoveredScreens) = 2

\* C6: a failure on one selected descriptor (not located, not displayed, or a
\* call that throws) never ends the loop: the loop ends only past the last of
\* the first five descriptors, and every labelled descriptor before the loop
\* index has been attempted.
C6_FailureDoesNotEndLoop ==
    mainScreen # Null =>
        /\ pc = "done" => i = Min(Len(mainScreen.elements.clickable), 5) + 1
        /\ \A n \in 1..Min(Len(mainScreen.elements.clickable), 5) :
              (n < i /\ Labelled(mainScreen.elements.clickable[n])) => n \in Range(attempted)

\* the first descriptor was attempted and never clicked, the second is attempted
C6_Witness ==
    /\ pc = "locate"
    /\ i = 2
    /\ attempted = <<1, 2>>
    /\ clicked = <<>>

\* C7: each click that returns and whose post-click snapshot is captured
\* appends exactly one snapshot, in click order, after the starting snapshot:
\* entry n + 1 of discoveredScreens is the snapshot of the screen behind the
\* n-th such click.
C7_OneSnapshotPerClick ==
    mainScreen # Null =>
        /\ Len(discoveredScreens) = 1 + Len(captured)
        /\ IsStartSnapshot(discoveredScreens[1])
        /\ \A n \in 1..Len(captured) :
              /\ discoveredScreens[n + 1].screenInfo.activity = <<"app", captured[n]>>
              /\ captured[n] \in Range(clicked)
              /\ n > 1 => captured[n - 1] < captured[n]

\* one clickable descriptor with a text, located, displayed and clicked: two
\* snapshots, the post-click one second
C7_Witness ==
    /\ pc = "done"
    /\ mainNodes = <<NodeText>>
    /\ clicked = <<1>> /\ captured = <<1>> /\ backs = <<1>>
    /\ Len(discoveredScreens) = 2
    /\ discoveredScreens[2].screenInfo.activity = <<"app", 1>>

\* ------------------------------------------------- the session's claim

\* C1: in each of the three functions, when remote() has returned a session,
\* deleteSession() has been called on it exactly once by the time the promise
\* settles, on the normal path and on every path where a later step throws; when
\* remote() fails, or is never reached, deleteSession() is not called at all.
C1_SessionReleasedOnce ==
    /\ deleteCalls <= sessionsCreated
    /\ sessionsCreated <= 1
    /\ sesPc = "settled" => deleteCalls = sessionsCreated
    /\ sesPc = "settled" <=> settled # "pending"
    /\ thrown \in {"remote", "mkdirSync"} => (sessionsCreated = 0 /\ deleteCalls = 0)

\* settled after a step behind the connection threw, the session released once
C1_Witness ==
    /\ sesPc = "settled"
    /\ prog = "runDeepInspection"
    /\ thrown = "writeFileSync"
    /\ sessionsCreated = 1
    /\ deleteCalls = 1

\* ------------------------------------------------- the finder's claim

SameKey(a, b) ==
    /\ a.resourceId = b.resourceId
    /\ a.text = b.text
    /\ a.className = b.className

NoTwoAlike(list) == \A m, n \in 1..Len(list) : m < n => ~SameKey(list[m], list[n])

IsPrefix(a, b) == Len(a) <= Len(b) /\ SubSeq(b, 1, Len(a)) = a

Categories == DOMAIN EmptyFound

\* C10: after any sequence of find* calls no category list holds two
\* descriptors equal on (resourceId, text, className), and a find* call only
\* appends: the entries already in a list stay, unchanged and in place.
C10_NoDuplicateKey ==
    /\ [](\A c \in Categories : NoTwoAlike(foundElements[c]))
    /\ [][\A c \in Categories : IsPrefix(foundElements[c], foundElements'[c])]_vars

\* the button and its moved twin (same key; other bounds, not clickable) both
\* answered the button queries and only the first is in the list
C10_Witness ==
    /\ changes = 0
    /\ finderScreen = <<ButtonA, ButtonMoved>>
    /\ getElementInfo(ButtonA).bounds # getElementInfo(ButtonMoved).bounds
    /\ getElementInfo(ButtonA).clickable # getElementInfo(ButtonMoved).clickable
    /\ getElementInfo(ButtonA).enabled # getElementInfo(ButtonMoved).enabled
    /\ SameKey(getElementInfo(ButtonA), getElementInfo(ButtonMoved))
    /\ foundElements.buttons = <<getElementInfo(ButtonA)>>

\* ------------------------------------------------- the snapshots' claims

\* the key of a snapshot's descriptor: identifier, text and class, as far as
\* the kind carries them
KeyOf(d) == [f \in {"resourceId", "text", "tagName"} \cap DOMAIN d |-> d[f]]

NoTwoAlikeKeys(list) == \A m, n \in 1..Len(list) : m < n => KeyOf(list[m]) # KeyOf(list[n])

SnapshotKinds == {"clickable", "inputs", "texts", "scrollable"}

\* C11: in every snapshot stored in discoveredScreens, no kind list holds two
\* descriptors equal on (identifier, text, class).
C11_Original ==
    \A s \in 1..Len(discoveredScreens) :
        \A kind \in SnapshotKinds :
            NoTwoAlikeKeys(discoveredScreens[s].elements[kind])

\* ------------------------------------------------- the extraction's claims

\* every attribute read of the node throws
AllReadsThrow(node) == \A a \in DOMAIN node : node[a] = THROWS

\* the descriptor of a node none of whose reads answered, `enabled` as given
AllDefaults(enabled) ==
    [text |-> <<>>, className |-> <<>>, resourceId |-> <<>>, contentDesc |-> <<>>,
     clickable |-> FALSE, enabled |-> enabled, bounds |-> NoRect, selectors |-> <<>>]

DescriptorFields ==
    {"text", "className", "resourceId", "contentDesc", "clickable", "enabled", "bounds",
     "selectors"}

Shown(read, default, present(_)) == IF read = THROWS THEN default ELSE present(read)

AsIs(v) == v

IsTrue(v) == v = <<"true">>

\* C13: in the descriptor of getElementInfo and in the descriptor of the
\* clickable loop, each field depends on its own read only: it is the default
\* when that read threw, and otherwise the value that read returned (the text
\* trimmed, the flags as booleans), whatever the other reads did.
C13_ReadsIndependent ==
    /\ infoOut # Unset =>
        /\ infoOut.text = Shown(infoNode.text, <<>>, Trim)
        /\ infoOut.className = Shown(infoNode.className, <<>>, AsIs)
        /\ infoOut.resourceId = Shown(infoNode.resourceId, <<>>, AsIs)
        /\ infoOut.contentDesc = Shown(infoNode.contentDesc, <<>>, AsIs)
        /\ infoOut.bounds = Shown(infoNode.bounds, NoRect, AsIs)
        /\ infoOut.clickable = Shown(infoNode.clickable, FALSE, IsTrue)
        /\ infoOut.enabled = Shown(infoNode.enabled, TRUE, IsTrue)
    /\ itemOut # Unset =>
        /\ itemOut.text = Shown(infoNode.text, <<>>, Trim)
        /\ itemOut.tagName = Shown(infoNode.tagName, <<>>, AsIs)
        /\ itemOut.resourceId = Shown(infoNode.resourceId, <<>>, AsIs)
        /\ itemOut.contentDesc = Shown(infoNode.contentDesc, <<>>, AsIs)
        /\ itemOut.bounds = Shown(infoNode.bounds, NoRect, AsIs)

\* the read of the class and of the tag threw, every other read answered, and
\* both descriptors are there with the other fields as read
C13_Witness ==
    /\ infoNode.className = THROWS /\ infoNode.tagName = THROWS
    /\ \A a \in DOMAIN infoNode \ {"className", "tagName"} : infoNode[a] # THROWS
    /\ infoNode.resourceId = <<"btn">> /\ infoNode.clickable = <<"true">>
    /\ infoOut # Unset /\ itemOut # Unset
    /\ infoOut.className = <<>> /\ infoOut.resourceId = <<"btn">> /\ infoOut.clickable
    /\ itemOut.tagName = <<>> /\ itemOut.text = <<"a">>

\* ------------------------------------------------- the pass's claims

\* the selector that threw, when it is one of `selectors`
FailingAmong(selectors) ==
    IF passFailAt = 0 THEN {} ELSE {Plan[passFailAt].selector} \cap Range(selectors)

\* the pass taken call by call leaves the lists that the pass taken as one
\* function does
PassAgrees ==
    /\ (passPc = "done" /\ passOf = "discoverElementsOnCurrentScreen"
            /\ passResult \notin {Null, Rejected}) =>
          passResult.elements =
              discoverElementsOnCurrentScreen(passScreen, FALSE, passFailAt, FALSE).elements
    /\ (passPc = "done" /\ passOf = "findAllElementTypes" /\ passResult # Rejected) =>
          /\ passResult.buttons =
                ScanSelectors(<<>>, ButtonSelectors, FailingAmong(ButtonSelectors),
                              passScreen, "buttons")
          /\ passResult.checkboxes =
                ScanSelectors(<<>>, CheckboxSelectors, FailingAmong(CheckboxSelectors),
                              passScreen, "checkboxes")
          /\ passResult.texts = ScanTexts(<<>>, Query("//android.widget.TextView", passScreen), 1)
          /\ passResult.custom =
                IF FailingAmong(<<"//*[@resource-id]">>) # {} THEN <<>>
                ELSE ScanCustom(<<>>, Query("//*[@resource-id]", passScreen), 1)

IsDeepPass == passOf = "discoverElementsOnCurrentScreen"

\* the log entries of one call on the nodes of query q
CallsOn(call, q) == {k \in DOMAIN passLog : passLog[k].call = call /\ passLog[k].q = q}

\* saveScreenshot was called and threw
ShotThrew ==
    \E k \in DOMAIN passLog :
        passLog[k].call = "saveScreenshot" /\ passLog[k].result = "throws"

\* C14: when saveScreenshot throws, discoverElementsOnCurrentScreen still
\* returns a snapshot; its screenshot is null and its lists are the ones the
\* pass filled, one descriptor for every push made.
C14_ScreenshotFailureTolerated ==
    (IsDeepPass /\ passPc = "done" /\ ShotThrew) =>
        /\ passResult \notin {Unset, Null, Rejected}
        /\ passResult.screenshot = NULL
        /\ passResult.elements = passLists
        /\ \A q \in 1..Len(DeepPlan) :
              Len(passResult.elements[DeepPlan[q].kind]) = Cardinality(CallsOn("push", q))

\* every query answered, two lists filled, the screenshot failed, and the
\* snapshot is there with its lists and no screenshot
C14_Witness ==
    /\ IsDeepPass /\ passPc = "done" /\ passFailAt = 0
    /\ ShotThrew
    /\ passScreen.clickable = <<NodeFull, NodeText>>
    /\ passScreen.texts = <<NodeText, NodeBare>>
    /\ Len(passResult.elements.clickable) = 2
    /\ Len(passResult.elements.texts) = 1
    /\ passResult.screenshot = NULL

\* the query at position q was issued
Issued(q) == CallsOn("$$", q) # {}

\* C15: when the structural query of one kind has thrown, the pass does not
\* reject, the queries of every later kind are issued all the same, and (in
\* discoverElementsOnCurrentScreen) the later kinds' lists are the ones a pass
\* without the throw fills.
C15_Original ==
    (passPc = "done" /\ passFailAt > 0 /\ Issued(passFailAt)) =>
        /\ passResult # Rejected
        /\ \A q \in (passFailAt + 1)..Len(Plan) : Issued(q)
        /\ IsDeepPass =>
              \A q \in (passFailAt + 1)..Len(Plan) :
                  passLists[Plan[q].kind] =
                      discoverElementsOnCurrentScreen(passScreen, FALSE, 0, FALSE)
                          .elements[Plan[q].kind]

\* C16: in a pass, every attribute read and every push on a node comes right
\* after an isDisplayed() on that node that returned true; isDisplayed() is
\* called once per node, so a node whose isDisplayed() returned false or threw
\* is never read and never gets a descriptor.
C16_OnlyDisplayedNodesRead ==
    /\ \A k \in DOMAIN passLog :
          /\ passLog[k].call = "read" =>
                /\ k > 1
                /\ passLog[k - 1] = LogEntry("isDisplayed", passLog[k].q, passLog[k].n, "yes")
          /\ passLog[k].call = "push" =>
                /\ k > 2
                /\ passLog[k - 1] = LogEntry("read", passLog[k].q, passLog[k].n, "ok")
          /\ (passLog[k].call = "isDisplayed" /\ passLog[k].result # "yes" /\ k < Len(passLog)) =>
                passLog[k + 1].call \notin {"read", "push"}
    /\ LET checks == SelectSeq(passLog, LAMBDA e : e.call = "isDisplayed")
       IN  \A m \in 1..(Len(checks) - 1) :
              \/ checks[m].q < checks[m + 1].q
              \/ checks[m].q = checks[m + 1].q /\ checks[m].n < checks[m + 1].n

\* a hidden node and a displayed one: the hidden one was checked and not
\* read, the displayed one read and pushed; and a node whose isDisplayed()
\* threw was not read either
C16_Witness ==
    /\ IsDeepPass /\ passPc = "done"
    /\ passScreen.clickable = <<NodeHidden, NodeText>>
    /\ passScreen.texts = <<NodeText, NodeBare>>
    /\ LogEntry("isDisplayed", 1, 1, "no") \in Range(passLog)
    /\ LogEntry("read", 1, 1, "ok") \notin Range(passLog)
    /\ LogEntry("read", 1, 2, "ok") \in Range(passLog)
    /\ LogEntry("push", 1, 2, "ok") \in Range(passLog)
    /\ Len(passLists.clickable) = 1

\* the nodes of query q that were looked at (visibility-checked)
Processed(q) == Cardinality(CallsOn("isDisplayed", q))

RanThrough(q) ==
    /\ qPos > q
    /\ \E k \in CallsOn("$$", q) : passLog[k].result = "ok"
    /\ \A k \in CallsOn("isDisplayed", q) :
          passLog[k].result = "throws" => Plan[q].visibleThrows = "next node"

PageCallsAnswered == \A k \in DOMAIN pageCalls : pageCalls[k].result # "throws"

\* the section a passed name stands for
SectionOf(name) ==
    CASE name = NameSpecimen -> SectionElement("Specimen")
      [] name = NameDome -> SectionElement("Dome")
      [] name = NameHarvesting -> SectionElement("Harvesting")
      [] name = NameMediaMoisture -> SectionElement("Media Moisture")

\* C18: for each of the four names 'specimen', 'dome', 'harvesting' and
\* 'mediaMoisture' clickSection resolves the section and clicks it (it never
\* throws 'Unknown section' for them, and when the remote calls answer, the
\* click on that section is issued and the call resolves).
C18_Original ==
    (pagePc = "done" /\ sectionName \in PassedNames) =>
        /\ pageOutcome # "Unknown section"
        /\ PageCallsAnswered =>
              /\ pageOutcome = "resolved"
              /\ PageCall("click", SectionOf(sectionName), "ok") \in Range(pageCalls)

\* ------------------------------------------------- the runners' claims

\* the section clicks and back navigations issued, in order
SectionTrail ==
    LET moves == SelectSeq(pageCalls, LAMBDA c : c.call \in {"click", "back"})
    IN  [k \in 1..Len(moves) |-> <<moves[k].call, moves[k].on>>]

ClickOf(name) == <<"click", SectionOf(name)>>

Back == <<"back", Null>>

\* every remote call of the run answered
RunCallsAnswered == runFaults = <<>> /\ PageCallsAnswered

\* C19: when its remote calls answer, runTest of run-single-test.js completes
\* its five steps in order and has then clicked specimen, dome, harvesting and
\* mediaMoisture in this order, with a back navigation after the specimen,
\* harvesting and mediaMoisture clicks and none after the dome click.
C19_Original ==
    (runner = "run-single-test" /\ runPc = "done" /\ RunCallsAnswered) =>
        /\ runLog = <<1, 2, 3, 4, 5>>
        /\ SectionTrail =
              << ClickOf(NameSpecimen), Back, ClickOf(NameDome),
                 ClickOf(NameHarvesting), Back, ClickOf(NameMediaMoisture), Back >>

\* the test step of this name has an entry in testResults.tests
Recorded(name) == \E k \in 1..Len(testResults) : testResults[k][1] = name

\* C20: in the runner with the HTML report, a failed test step does not stop
\* the suite: when runTest is through, every step after a failed one has been
\* executed and has its entry in testResults.tests.
C20_Original ==
    (runner = "html-report" /\ runPc = "done") =>
        \A k \in 1..Len(ReportSteps) :
            <<ReportSteps[k].name, "failed">> \in Range(testResults) =>
                \A later \in (k + 1)..Len(ReportSteps) : Recorded(ReportSteps[later].name)

\* ------------------------------------------------- the workflow's claims

\* a step behind the connection threw inside the runner at hand
FailedInSession == thrown \notin {"none", "remote", "mkdirSync"}

\* C21: when a step of runDeepInspection fails after the session was acquired,
\* the release is attempted and the promise of runDeepInspection then rejects,
\* so that runCompleteWorkflow does not report success.
C21_Original ==
    (prog = "runDeepInspection" /\ FailedInSession) =>
        /\ sesPc = "settled" => (deleteCalls = sessionsCreated /\ settled = "rejected")
        /\ wfReport # "success"

\* the sessions handed out and not yet asked to be deleted
OpenSessions == sessionsCreated - deleteCalls

\* C23: at every point of runCompleteWorkflow at most one session is open, and
\* while runDeepInspection has not acquired its own session, every session
\* runElementFinder acquired has had deleteSession called on it, whether the
\* element discovery returned results or failed.
C23_OneSessionAtATime ==
    /\ OpenSessions \in {0, 1}
    /\ (wfPc = "runDeepInspection" /\ driver = Null) => OpenSessions = 0
    /\ (wfPc = "runDeepInspection" /\ driver # Null) => deleteCalls >= sessionsCreated - 1
    /\ wfPc \in {"generateTests", "createSummaryReport", "done"} => OpenSessions = 0

\* runDeepInspection holds the second session after a failed element discovery
\* whose session was released
C23_Witness ==
    /\ wfPc = "runDeepInspection"
    /\ sesPc = "body"
    /\ driver # Null
    /\ wfResults.elementDiscovery = "undefined"
    /\ sessionsCreated = 2
    /\ deleteCalls = 1

\* ------------------------------------------------- the claims on the loop's remote calls

\* positions of the trail
Calls == DOMAIN trail

\* the descriptor the trail belongs to
TrailElement == clickableElements[trail[1].at]

\* the selectors queried by the selector loop, in the order of the queries
Tried ==
    LET queries == SelectSeq(trail, LAMBDA c : c.call = "$")
    IN  [k \in 1..Len(queries) |-> queries[k].on]

\* positions at which the selector loop saw its match displayed
LoopMatches ==
    {k \in Calls : /\ k > 1
                   /\ trail[k] = Call("isDisplayed", trail[k].at, trail[k].on, "displayed")
                   /\ trail[k - 1] = Call("$", trail[k].at, trail[k].on, "ok")}

\* C22: the selector loop queries the descriptor's XPath selectors in their
\* synthesized order, identifier before text before label, and stops at the
\* first one whose match is displayed: no selector is queried after it, and
\* the element clicked afterwards is that match.
C22_IdentifierFirstUntilDisplayed ==
    trail # <<>> =>
        /\ IsPrefix(Tried, xpathSelectors(TrailElement))
        /\ \A j, k \in 1..Len(Tried) : j < k => LocatorTier(Tried[j]) < LocatorTier(Tried[k])
        /\ \A m \in LoopMatches :
            /\ \A k \in Calls : k > m => trail[k].call \notin {"$", "fallback $"}
            /\ \A k \in Calls : trail[k].call = "click" => trail[k].on = trail[m].on
        /\ \A k \in Calls : trail[k].at = trail[1].at

\* the identifier's match was not displayed, the text's match was: it was
\* clicked and the label's selector never queried
C22_Witness ==
    /\ trail # <<>>
    /\ Len(xpathSelectors(TrailElement)) = 3
    /\ Len(Tried) = 2
    /\ LocatorTier(Tried[1]) = 1
    /\ trail[2].result = "not displayed"
    /\ LoopMatches = {4}
    /\ \E k \in Calls : trail[k] = Call("click", trail[1].at, Tried[2], "ok")

\* C24: click() is issued on an element only directly after an isDisplayed()
\* call on that same element that returned true; a descriptor for which no
\* isDisplayed() call returned true gets neither a click nor a back.
C24_ClickOnlyWhenDisplayed ==
    /\ \A k \in Calls :
        trail[k].call = "click" =>
            /\ k > 1
            /\ trail[k - 1] = Call("isDisplayed", trail[k].at, trail[k].on, "displayed")
    /\ (trail # <<>> /\ \A k \in Calls : trail[k].result # "displayed") =>
            /\ \A k \in Calls : trail[k].call \notin {"click", "back"}
            /\ trail[1].at \notin Range(clicked)
            /\ trail[1].at \notin Range(backs)
    /\ \A j \in Range(backs) : j \in Range(clicked)

\* the first descriptor was clicked; for the second none of the three
\* selectors gave a displayed element, and its iteration ended without a click
C24_Witness ==
    /\ pc = "loop"
    /\ i = 3
    /\ clicked = <<1>>
    /\ backs = <<1>>
    /\ Len(trail) = 7
    /\ Len(Tried) = 3
    /\ \A k \in Calls : trail[k].result # "displayed"

\* every click that returned is followed by back() within its iteration
BackAfterReturnedClick ==
    \A k \in Calls :
        trail[k] = Call("click", trail[k].at, trail[k].on, "ok") =>
            IF k = Len(trail)
                THEN pc \in {"snap", "back"} /\ i = trail[k].at
                ELSE /\ k + 1 = Len(trail)
                     /\ trail[k + 1].call = "back"
                     /\ trail[k + 1].at = trail[k].at
                     /\ trail[k].at \in Range(backs)

\* between two clicks there is a back
BackBetweenClicks ==
    \A a, b \in Range(clicked) : a < b => a \in Range(backs)

\* C25 as stated: every click() that was issued and returned is followed by
\* back() before a later descriptor is re-located or clicked, also when the
\* snapshot after the click is null; between two clicks there is always a back.
C25_Original == BackAfterReturnedClick /\ BackBetweenClicks

\* C25, amended: every click() that returned is followed by back() before a
\* later descriptor is re-located or clicked, also when the snapshot after the
\* click is null; back() is issued only after a click() that returned, so a
\* click() that threw is followed by no back.
C25_BackAfterReturnedClick ==
    /\ BackAfterReturnedClick
    /\ \A k \in Calls :
        trail[k].call = "back" =>
            /\ k > 1
            /\ trail[k - 1] = Call("click", trail[k].at, trail[k - 1].on, "ok")
    /\ pc \in {"locate", "fallback", "check", "click"} =>
            \A k \in Calls : trail[k].call \notin {"click", "back"}

\* the click returned, the snapshot after it was null, and back() was issued
C25_Witness ==
    /\ pc = "loop"
    /\ i = 2
    /\ clicked = <<1>>
    /\ captured = <<>>
    /\ backs = <<1>>
    /\ Len(discoveredScreens) = 1
    /\ trail # <<>>
    /\ trail[Len(trail)].call = "back"

\* ------------------------------------------------- the finder's second call

\* the descriptor is the one a visible node of the screen shown gives
FromScreen(d, kind) ==
    \E n \in 1..Len(finderScreen) :
        /\ finderScreen[n].shown = "yes"
        /\ d = WithExtra(getElementInfo(finderScreen[n]), kind)

\* every descriptor of the lists is one of a node on the screen shown
OnlyFromScreen(lists) ==
    \A c \in Categories : \A d \in Range(lists[c]) : FromScreen(d, c)

\* the lists of a finder whose screen never changed hold descriptors of its nodes
FreshListsFromScreen == changes = 0 => OnlyFromScreen(foundElements)

\* C26: the lists a find* call of findAllElementTypes leaves hold only
\* descriptors of nodes queried and visible during that call; after the screen
\* has changed, a call returns no descriptor left over from an earlier call.
C26_Original ==
    [][changes' = changes => OnlyFromScreen(foundElements')]_vars

\* ------------------------------------------------- the report's counters

\* the test steps that were executed: those with a passed or failed entry
ExecutedSteps == {k \in 1..Len(ReportSteps) : Recorded(ReportSteps[k].name)}

\* the test steps that failed
FailedSteps == {k \in 1..Len(ReportSteps) : <<ReportSteps[k].name, "failed">> \in Range(testResults)}

\* the counters agree with each other and with the number of entries
CountersAgree ==
    /\ summary.total = summary.passed + summary.failed
    /\ summary.total = Len(testResults)

\* C27: in the runner with the HTML report every executed step contributes one
\* entry to testResults.tests and one increment of summary.total, so that after
\* the run total = passed + failed = tests.length, and a single failing step
\* raises summary.failed by exactly 1 (on runs whose remote() call returned).
C27_Original ==
    (runner = "html-report" /\ runPc = "done" /\ "remote" \notin Range(runFaults)) =>
        /\ CountersAgree
        /\ Len(testResults) = Cardinality(ExecutedSteps)
        /\ summary.failed = Cardinality(FailedSteps)

\* ------------------------------------------------- the suite runner's claim

\* how often the result of suite k was pushed
Pushes(k) == Cardinality({n \in 1..Len(suiteResults) : suiteResults[n] = k})

\* C28: whatever 'error' and 'close' events a suite's child process emits, in
\* whatever order, the suite gets exactly one result in results.testSuites and
\* one increment of passedSuites or failedSuites; hence after runAllTests
\* passedSuites + failedSuites = totalSuites = testSuites.length.
C28_Original ==
    /\ \A k \in 1..Len(TestSuites) : Pushes(k) = IF emitted[k] = {} THEN 0 ELSE 1
    /\ suiteSummary.passedSuites + suiteSummary.failedSuites = Len(suiteResults)
    /\ prodPc = "done" =>
          /\ suiteSummary.passedSuites + suiteSummary.failedSuites = suiteSummary.totalSuites
          /\ suiteSummary.totalSuites = Len(suiteResults)

\* ------------------------------------------------- the test runners' claims

\* every test of the runner ran and passed
AllTestsPassed ==
    /\ Len(trTests) = TestsOf(trProg)
    /\ \A n \in 1..Len(trTests) : trTests[n][2] = "passed"

\* C29: runTests resolves true, and the process exits 0, only if a session was
\* established and all four tests ran and passed; when connecting fails, or
\* the run ends before all tests ran, it resolves false.
C29_Original ==
    (trProg = "runTests" /\ trPc = "done") =>
        /\ (trOut = "true" \/ trExit = 0) => (trDriver /\ AllTestsPassed)
        /\ (trOut # "rejected" /\ (~trDriver \/ Len(trTests) < TestsOf(trProg))) => trOut = "false"

\* C30: runTest of SimpleTestRunner and of FixedTestRunner never rejects: a
\* throwing test function is recorded as one failed entry, and neither it nor
\* a failing post-test screenshot keeps the later tests of runAllTests from
\* being run and recorded.
C30_Original ==
    trProg \in {"SimpleTestRunner", "FixedTestRunner"} =>
        /\ \A n \in 1..Len(trRuns) : trRuns[n][2] = "resolved"
        /\ Len(trTests) = trCounts.total
        /\ (trPc = "done" /\ trDriver) => Len(trTests) = TestsOf(trProg)

====
